---- MODULE Spec2Model ----
(***************************************************************************)
(* A model of idock's ligand class (the PDBQT parser of ligand::ligand,    *)
(* ligand::evaluate) and of the screening driver (main).                   *)
(*                                                                         *)
(* Numbers.  Coordinates, energies and derivatives are integers: atoms sit *)
(* on a lattice, rotations are the lattice rotations (multiples of a       *)
(* quarter turn about a lattice axis), so every product of the code is     *)
(* computed exactly; a sum or difference of coordinates is rounded to the  *)
(* FlBits significant bits of fl, which leaves the small numbers alone.    *)
(* Frames and atoms are indexed from 0 as in the code; the k-th frame of   *)
(* the code is frames[k + 1] of the sequence.                              *)
(***************************************************************************)
EXTENDS Integers, Sequences, FiniteSets, TLC

VARIABLES
    input,      \* ligand::ligand: the lines getline has returned so far
    lig,        \* the ligand object (fields and the constructor's locals)
    conf,       \* ligand::evaluate: the conformation of the last call
    out,        \* ligand::evaluate: the caller's e, f, g and the returned bool
    calls,      \* ligand::evaluate: number of calls made
    main        \* main: the driver's locals, the pool tasks and the devices

vars == <<input, lig, conf, out, calls, main>>

-----------------------------------------------------------------------------
(* Bounds of the model. *)

\* ligand::ligand: longest input file, in lines
MaxLines == 7
\* ligand::ligand: most ATOM lines of one file
MaxAtoms == 3
\* ligand::ligand: most BRANCH lines of one file
MaxBranches == 2
\* ligand::ligand: longest well-formed file of heavy atoms, in lines
MaxPairLines == 7
\* ligand::ligand: most heavy atoms of a well-formed file
MaxPairAtoms == 5
\* fl: the bits of the significand
FlBits == 6

-----------------------------------------------------------------------------
(* vec3 and mat3 *)

zero3 == <<0, 0, 0>>

Abs(x) == IF x < 0 THEN -x ELSE x

\* The distance between neighbouring values of fl at magnitude a
RECURSIVE fl_ulp(_)
fl_ulp(a) == IF a < 2^FlBits THEN 1 ELSE 2 * fl_ulp(a \div 2)

\* The value of fl nearest to x, ties to the even significand
Fl(x) ==
    IF Abs(x) < 2^FlBits THEN x
    ELSE CHOOSE r \in
           { (IF x < 0 THEN -1 ELSE 1)
               * (IF 2 * (Abs(x) % u) < u
                     \/ (2 * (Abs(x) % u) = u /\ (Abs(x) \div u) % 2 = 0)
                  THEN (Abs(x) \div u) * u
                  ELSE ((Abs(x) \div u) + 1) * u) :
               u \in {fl_ulp(Abs(x))} } : TRUE

VAdd(a, b) == <<Fl(a[1] + b[1]), Fl(a[2] + b[2]), Fl(a[3] + b[3])>>

VSub(a, b) == <<Fl(a[1] - b[1]), Fl(a[2] - b[2]), Fl(a[3] - b[3])>>

VScale(s, a) == <<s * a[1], s * a[2], s * a[3]>>

VDot(a, b) == a[1] * b[1] + a[2] * b[2] + a[3] * b[3]

cross_product(a, b) ==
    <<a[2] * b[3] - a[3] * b[2], a[3] * b[1] - a[1] * b[3], a[1] * b[2] - a[2] * b[1]>>

norm_sqr(a) == VDot(a, a)

distance_sqr(a, b) == norm_sqr(VSub(a, b))

\* mat3::operator*(vec3): data[0..8] is m[1..9]
MatVec(m, v) ==
    << m[1] * v[1] + m[2] * v[2] + m[3] * v[3],
       m[4] * v[1] + m[5] * v[2] + m[6] * v[3],
       m[7] * v[1] + m[8] * v[2] + m[9] * v[3] >>

Sign(x) == IF x > 0 THEN 1 ELSE IF x < 0 THEN -1 ELSE 0

\* vec3::normalize on the lattice: a vector along one axis becomes the unit
\* vector of that axis; the zero vector divides by zero and yields NaN.
\* The atoms of the model are placed so that no other vector is normalized.
NaN3 == <<"NaN", "NaN", "NaN">>

normalize(v) ==
    IF v = zero3 THEN NaN3 ELSE <<Sign(v[1]), Sign(v[2]), Sign(v[3])>>

-----------------------------------------------------------------------------
(* atom *)

\* AutoDock4 types parse_ad_type_string knows; any other string yields AD_TYPE_SIZE
SupportedAD == {"H", "HD", "C", "A", "N", "NA", "OA"}

parse_ad_type_string(s) == IF s \in SupportedAD THEN s ELSE "AD_TYPE_SIZE"

\* XScore type of a freshly constructed atom
ad_to_xs(ad) ==
    CASE ad \in {"C", "A"} -> "C_H"
      [] ad = "N"          -> "N_P"
      [] ad = "NA"         -> "N_A"
      [] ad = "OA"         -> "O_A"
      [] OTHER             -> "none"

atom(coordinate, ad) == [coordinate |-> coordinate, ad |-> ad, xs |-> ad_to_xs(ad)]

is_hydrogen(a) == a.ad \in {"H", "HD"}

is_hetero(a) == a.ad \notin {"H", "HD", "C", "A"}

\* Squared reach of a covalent bond, in lattice units
NeighborSqr == 1

is_neighbor(a, b) == distance_sqr(a.coordinate, b.coordinate) <= NeighborSqr

donorize(a) ==
    [a EXCEPT !.xs = CASE @ = "N_P" -> "N_D"
                       [] @ = "N_A" -> "N_DA"
                       [] @ = "O_A" -> "O_DA"
                       [] OTHER     -> @]

dehydrophobicize(a) == [a EXCEPT !.xs = IF @ = "C_H" THEN "C_P" ELSE @]

\* Index of an XScore type into the grid maps and the scoring function
XsIndex(xs) ==
    CASE xs = "C_H" -> 0 [] xs = "C_P" -> 1 [] xs = "N_P" -> 2 [] xs = "N_D" -> 3
      [] xs = "N_A" -> 4 [] xs = "N_DA" -> 5 [] xs = "O_A" -> 6 [] xs = "O_DA" -> 7

triangular_matrix_permissive_index(t1, t2) ==
    IF t1 <= t2 THEN t1 + ((t2 * (t2 + 1)) \div 2) ELSE t2 + ((t1 * (t1 + 1)) \div 2)

-----------------------------------------------------------------------------
(* Input lines.  kind is the prefix starts_with finds; an ATOM line carries *)
(* its serial number (columns 7-11), coordinate (31-54) and AutoDock type   *)
(* (78-79); a BRANCH line carries X (columns 7-10).  size is line.size():   *)
(* 79 or more for an ATOM line with a blank or a second letter in column   *)
(* 79, and 17 at most for the other retained lines.                        *)

Line(kind, serial, pos, ad, x) ==
    [kind |-> kind, serial |-> serial, pos |-> pos, ad |-> ad, x |-> x,
     size |-> IF kind = "ATOM" THEN 79 ELSE 17]

AtomLine(serial, pos, ad) == Line("ATOM", serial, pos, ad, 0)

\* an ATOM line that ends with its one-letter type in column 78
ShortAtomLine(serial, pos, ad) == [AtomLine(serial, pos, ad) EXCEPT !.size = 78]

BranchLine(x) == Line("BRANCH", 0, zero3, "", x)

EndBranchLine == Line("ENDBRANCH", 0, zero3, "", 0)

\* ROOT, ENDROOT and TORSDOF are handled alike
RootLine == Line("ROOT", 0, zero3, "", 0)

\* REMARK, WARNING, TER, ...: not retained
RemarkLine == Line("REMARK", 0, zero3, "", 0)

-----------------------------------------------------------------------------
(* frame and the fields of ligand *)

identity3 == <<1, 0, 0, 0, 1, 0, 0, 0, 1>>

qt_identity == <<1, 0, 0, 0>>

frame(parent, rotorX) ==
    [ parent |-> parent, rotorX |-> rotorX, active |-> TRUE,
      heavy_atoms |-> <<>>, hydrogens |-> <<>>, numbers |-> <<>>,
      relative_origin |-> zero3, relative_axis |-> zero3,
      orientation_q |-> qt_identity, orientation_m |-> identity3, axis |-> zero3,
      force |-> zero3, torque |-> zero3,
      coordinates |-> <<>>, derivatives |-> <<>>, energies |-> <<>> ]

NoError == [line |-> 0, reason |-> "none"]

\* The object at line 38 of the constructor, before the first getline
NewLigand ==
    [ frames |-> <<frame(0, 0)>>, lines |-> <<>>,
      num_active_torsions |-> 0, num_heavy_atoms |-> 0,
      num_frames |-> 0, num_torsions |-> 0, one_to_four_pairs |-> <<>>,
      current |-> 0, num_lines |-> 0,
      status |-> "parsing", err |-> NoError ]

\* The line number a parsing_error carries: num_lines, which counts every
\* line getline has returned
ErrorLineRetained(st) == Len(st.lines)

ErrorLine(st) == st.num_lines

parsing_error(st, reason) ==
    [st EXCEPT !.status = "thrown", !.err = [line |-> ErrorLine(st), reason |-> reason]]

\* The polar-hydrogen loop: heavy atoms from the last to the first, the
\* first hetero neighbour found is donorized and the loop breaks.
RECURSIVE DonorScan(_, _, _)
DonorScan(heavy, a, i) ==
    IF i = 0 THEN heavy
    ELSE IF is_hetero(heavy[i]) /\ is_neighbor(a, heavy[i])
         THEN [heavy EXCEPT ![i] = donorize(@)]
         ELSE DonorScan(heavy, a, i - 1)

ParseAtom(st, line) ==
    LET s1 == [st EXCEPT !.lines = Append(@, line)]
        ad == parse_ad_type_string(line.ad)
        a  == atom(line.pos, ad)
        c  == st.current + 1
    IN  IF ad = "AD_TYPE_SIZE" THEN parsing_error(s1, "unsupported atom type")
        ELSE IF is_hydrogen(a)
        THEN [s1 EXCEPT !.frames[c].hydrogens = Append(@, a),
                        !.frames[c].heavy_atoms =
                            IF ad = "HD" THEN DonorScan(@, a, Len(@)) ELSE @]
        ELSE [s1 EXCEPT !.frames[c].heavy_atoms = Append(@, a),
                        !.frames[c].numbers = Append(@, line.serial),
                        !.num_heavy_atoms = @ + 1]

\* The first position of numbers holding x, 0 when there is none
FirstIndexOf(numbers, x) ==
    IF \E i \in 1..Len(numbers) : numbers[i] = x
    THEN CHOOSE i \in 1..Len(numbers) :
            numbers[i] = x /\ \A j \in 1..(i - 1) : numbers[j] # x
    ELSE 0

BranchTarget(frames) == Len(frames) - 1

\* Faulty variant: the new frame is related to itself instead of the current frame
ParseBranchSelfParent(st, line) ==
    LET s1 == [st EXCEPT !.lines = Append(@, line)]
        i  == FirstIndexOf(st.frames[st.current + 1].numbers, line.x)
        fs == IF i > 0 THEN Append(st.frames, frame(Len(st.frames), i - 1)) ELSE st.frames
    IN  [s1 EXCEPT !.frames = fs, !.current = BranchTarget(fs)]

ParseBranch(st, line) ==
    LET s1 == [st EXCEPT !.lines = Append(@, line)]
        i  == FirstIndexOf(st.frames[st.current + 1].numbers, line.x)
        fs == IF i > 0 THEN Append(st.frames, frame(st.current, i - 1)) ELSE st.frames
    IN  [s1 EXCEPT !.frames = fs, !.current = BranchTarget(fs)]

\* Faulty variant: the last frame is taken to be frames.size()
IsRedundantRotorOffByOne(st) ==
    /\ st.current = Len(st.frames)
    /\ Len(st.frames[st.current + 1].heavy_atoms) = 1

\* The redundant-torsion test of ENDBRANCH
IsRedundantRotor(st) ==
    /\ st.current = Len(st.frames) - 1
    /\ Len(st.frames[st.current + 1].heavy_atoms) = 1

ParseEndBranch(st, line) ==
    LET s1 == [st EXCEPT !.lines = Append(@, line)]
        c  == st.current + 1
    IN  IF st.frames[c].heavy_atoms = <<>>
        THEN parsing_error(s1, "empty BRANCH")
        ELSE LET s2 == IF IsRedundantRotor(st)
                       THEN [s1 EXCEPT !.frames[c].active = FALSE]
                       ELSE [s1 EXCEPT !.num_active_torsions = @ + 1]
             IN  [s2 EXCEPT !.current = st.frames[c].parent]

\* One iteration of the getline loop
ParseLine(st, line) ==
    LET s1 == [st EXCEPT !.num_lines = @ + 1]
    IN  CASE line.kind = "ATOM"      -> ParseAtom(s1, line)
          [] line.kind = "BRANCH"    -> ParseBranch(s1, line)
          [] line.kind = "ENDBRANCH" -> ParseEndBranch(s1, line)
          [] line.kind = "ROOT"      -> [s1 EXCEPT !.lines = Append(@, line)]
          [] OTHER                   -> s1

-----------------------------------------------------------------------------
(* The constructor after the getline loop *)

NumHeavy(frames, k) == Len(frames[k + 1].heavy_atoms)

\* "Dehydrophobicize carbons if necessary": a carbon bonded to a hetero atom
\* of its frame, or facing a hetero atom across a rotatable bond
IsRotorPartner(frames, k, i, c) ==
    /\ c >= 1
    /\ \/ /\ c = k /\ i = 0
          /\ is_hetero(frames[frames[c + 1].parent + 1].heavy_atoms[frames[c + 1].rotorX + 1])
       \/ /\ frames[c + 1].parent = k /\ frames[c + 1].rotorX = i
          /\ is_hetero(frames[c + 1].heavy_atoms[1])

Dehydrophobicized(frames) ==
    [k1 \in 1..Len(frames) |->
        [frames[k1] EXCEPT !.heavy_atoms =
            [i1 \in 1..Len(frames[k1].heavy_atoms) |->
                LET b == frames[k1].heavy_atoms[i1]
                IN  IF /\ ~is_hetero(b)
                       /\ \/ \E j1 \in 1..Len(frames[k1].heavy_atoms) :
                                /\ is_hetero(frames[k1].heavy_atoms[j1])
                                /\ is_neighbor(frames[k1].heavy_atoms[j1], b)
                          \/ \E c \in 0..(Len(frames) - 1) :
                                IsRotorPartner(frames, k1 - 1, i1 - 1, c)
                    THEN dehydrophobicize(b) ELSE b]]]

\* "Initialize relative_origin and relative_axis of BRANCH frames"
WithRelativeAxes(frames) ==
    [k1 \in 1..Len(frames) |->
        IF k1 = 1 THEN frames[k1]
        ELSE LET f      == frames[k1]
                 pf     == frames[f.parent + 1]
                 origin == f.heavy_atoms[1].coordinate
             IN  [f EXCEPT
                    !.relative_origin = VSub(origin, pf.heavy_atoms[1].coordinate),
                    !.relative_axis =
                        normalize(VSub(origin, pf.heavy_atoms[f.rotorX + 1].coordinate))]]

\* bonds[k][i]: the atoms <<frame, index>> bonded to atom i of frame k
bonds(frames, k, i) ==
    {<<k, j>> : j \in {j \in 0..(NumHeavy(frames, k) - 1) :
                        /\ j # i
                        /\ is_neighbor(frames[k + 1].heavy_atoms[i + 1],
                                       frames[k + 1].heavy_atoms[j + 1])}}
    \cup (IF k > 0 /\ i = 0
          THEN {<<frames[k + 1].parent, frames[k + 1].rotorX>>} ELSE {})
    \cup {<<c, 0>> : c \in {c \in 1..(Len(frames) - 1) :
                        frames[c + 1].parent = k /\ frames[c + 1].rotorX = i}}

\* Faulty variant: the innermost loop over i2_bonds is missing
neighborsDepthTwo(frames, k, i) ==
    LET n1 == bonds(frames, k, i)
        n2 == UNION {bonds(frames, b[1], b[2]) : b \in n1}
    IN  n1 \cup n2

\* "Find neighbor atoms within 3 consecutive covalent bonds"
neighbors(frames, k, i) ==
    LET n1 == bonds(frames, k, i)
        n2 == UNION {bonds(frames, b[1], b[2]) : b \in n1}
        n3 == UNION {bonds(frames, b[1], b[2]) : b \in n2}
    IN  n1 \cup n2 \cup n3

\* The test of line 292 that skips a pair
SkipsPair(frames, k1, i, k2, j) ==
    \/ /\ k1 = frames[k2 + 1].parent
       /\ (j = 0 \/ i = frames[k2 + 1].rotorX)
    \/ <<k2, j>> \in neighbors(frames, k1, i)

one_to_four_pair(frames, k1, i1, k2, i2) ==
    [ k1 |-> k1, i1 |-> i1, k2 |-> k2, i2 |-> i2,
      type_pair_index |->
        triangular_matrix_permissive_index(
            XsIndex(frames[k1 + 1].heavy_atoms[i1 + 1].xs),
            XsIndex(frames[k2 + 1].heavy_atoms[i2 + 1].xs)) ]

RECURSIVE Flatten(_)
Flatten(ss) == IF ss = <<>> THEN <<>> ELSE Head(ss) \o Flatten(Tail(ss))

\* Faulty variant: the k2 loop starts one frame late
FirstK2Late(k1) == k1 + 2

\* First frame the k2 loop of line 286 visits
FirstK2(k1) == k1 + 1

\* "Find 1-4 interacting pairs": the loops over k1, i, k2, j in that order
FindPairs(frames) ==
    LET nf == Len(frames)
        PairsOfK2(k1, i, k2) ==
            LET all == [j1 \in 1..NumHeavy(frames, k2) |-> j1 - 1]
                kept == SelectSeq(all, LAMBDA j : ~SkipsPair(frames, k1, i, k2, j))
            IN  [n \in 1..Len(kept) |-> one_to_four_pair(frames, k1, i, k2, kept[n])]
        PairsOfAtom(k1, i) ==
            Flatten([d \in 1..(nf - FirstK2(k1)) |-> PairsOfK2(k1, i, FirstK2(k1) + d - 1)])
        PairsOfFrame(k1) ==
            Flatten([i1 \in 1..NumHeavy(frames, k1) |-> PairsOfAtom(k1, i1 - 1)])
    IN  Flatten([k \in 1..nf |-> PairsOfFrame(k - 1)])

\* Faulty variant: only the heavy atoms are made relative
RelativeHeavyOnly(frames) ==
    [k1 \in 1..Len(frames) |->
        LET f      == frames[k1]
            origin == f.heavy_atoms[1].coordinate
            n      == Len(f.heavy_atoms)
        IN  [f EXCEPT
                !.heavy_atoms = [i1 \in 1..n |->
                    [f.heavy_atoms[i1] EXCEPT !.coordinate = VSub(@, origin)]],
                !.coordinates = [i1 \in 1..n |-> zero3],
                !.derivatives = [i1 \in 1..n |-> zero3],
                !.energies    = [i1 \in 1..n |-> 0]]]

\* "Update heavy_atoms[].coordinate and hydrogens[] to relative coordinates"
Relative(frames) ==
    [k1 \in 1..Len(frames) |->
        LET f      == frames[k1]
            origin == f.heavy_atoms[1].coordinate
            n      == Len(f.heavy_atoms)
        IN  [f EXCEPT
                !.heavy_atoms = [i1 \in 1..n |->
                    [f.heavy_atoms[i1] EXCEPT !.coordinate = VSub(@, origin)]],
                !.hydrogens = [i1 \in 1..Len(f.hydrogens) |->
                    [f.hydrogens[i1] EXCEPT !.coordinate = VSub(@, origin)]],
                !.coordinates = [i1 \in 1..n |-> zero3],
                !.derivatives = [i1 \in 1..n |-> zero3],
                !.energies    = [i1 \in 1..n |-> 0]]]

\* heavy_atoms.front() of a frame without a heavy atom is undefined
\* behaviour (lines 187, 199 and 307): the constructor then either crashes
\* or goes on with garbage, and no property of the object is claimed.
HasEmptyFrame(st) == \E k1 \in 1..Len(st.frames) : st.frames[k1].heavy_atoms = <<>>

\* End of file: lines 147 to 321
FinishLigand(st) ==
    IF HasEmptyFrame(st) THEN [st EXCEPT !.status = "undefined"]
    ELSE LET f1 == Dehydrophobicized(st.frames)
             f2 == WithRelativeAxes(f1)
         IN  [st EXCEPT !.status = "done",
                        !.num_frames = Len(st.frames),
                        !.num_torsions = Len(st.frames) - 1,
                        !.one_to_four_pairs = FindPairs(f2),
                        !.frames = Relative(f2)]

\* The whole constructor on a file
RECURSIVE ParseLines(_, _)
ParseLines(st, file) ==
    IF file = <<>> \/ st.status # "parsing" THEN st
    ELSE CHOOSE r \in { ParseLines(st1, Tail(file)) :
                            st1 \in {ParseLine(st, Head(file))} } : TRUE

ligand(file) ==
    CHOOSE r \in { IF st.status = "parsing" THEN FinishLigand(st) ELSE st :
                      st \in {ParseLines(NewLigand, file)} } : TRUE

-----------------------------------------------------------------------------
(* Quaternions.  A lattice rotation is held as an integer quaternion q     *)
(* that stands for the unit quaternion q / |q|: a quarter turn about the   *)
(* axis a is <<1, a>> for (cos 45, sin 45 * a) and a half turn is <<0, a>>. *)

QTurns == {0, 1, 2, 3}

\* (cos(angle / 2), sin(angle / 2) * axis), angle counted in quarter turns
axis_angle_to_quaternion(axis, angle) ==
    CASE angle = 0 -> <<1, 0, 0, 0>>
      [] angle = 1 -> <<1, axis[1], axis[2], axis[3]>>
      [] angle = 2 -> <<0, axis[1], axis[2], axis[3]>>
      [] angle = 3 -> <<-1, axis[1], axis[2], axis[3]>>

\* Hamilton product q1 * q2
QMul(q1, q2) ==
    << q1[1] * q2[1] - q1[2] * q2[2] - q1[3] * q2[3] - q1[4] * q2[4],
       q1[1] * q2[2] + q1[2] * q2[1] + q1[3] * q2[4] - q1[4] * q2[3],
       q1[1] * q2[3] - q1[2] * q2[4] + q1[3] * q2[1] + q1[4] * q2[2],
       q1[1] * q2[4] + q1[2] * q2[3] - q1[3] * q2[2] + q1[4] * q2[1] >>

QNormSqr(q) == q[1] * q[1] + q[2] * q[2] + q[3] * q[3] + q[4] * q[4]

\* The rotation matrix of q / |q|, rows first
quaternion_to_matrix(q) ==
    LET a == q[1]  b == q[2]  c == q[3]  d == q[4]
        n == QNormSqr(q)
    IN  << (a*a + b*b - c*c - d*d) \div n, (2 * (b*c - a*d)) \div n, (2 * (a*c + b*d)) \div n,
           (2 * (a*d + b*c)) \div n, (a*a - b*b + c*c - d*d) \div n, (2 * (c*d - a*b)) \div n,
           (2 * (b*d - a*c)) \div n, (2 * (a*b + c*d)) \div n, (a*a - b*b - c*c + d*d) \div n >>

-----------------------------------------------------------------------------
(* box, grid maps and scoring function: the receptor side of evaluate *)

\* Edge of the search box in grid cells; the granularity is one lattice unit
BoxSize == 12

box == [ corner1 |-> zero3, corner2 |-> <<BoxSize, BoxSize, BoxSize>>,
         num_grids |-> <<BoxSize, BoxSize, BoxSize>>, grid_granularity_inverse |-> 1 ]

within(b, p) == \A d \in 1..3 : b.corner1[d] <= p[d] /\ p[d] <= b.corner2[d]

Min(x, y) == IF x <= y THEN x ELSE y

grid_index(b, p) ==
    [d \in 1..3 |->
        Min((p[d] - b.corner1[d]) * b.grid_granularity_inverse, b.num_grids[d] - 1)]

\* grid_maps[t](x, y, z): the receptor's energy of a probe of type t
grid_map(t, x, y, z) == ((x + 2 * y + 3 * z + t) % 5) - 2

Cutoff_Sqr == 64

\* sf.evaluate(type_pair_index, r2): the table entry, e and dor
sf_evaluate(type_pair_index, r2) ==
    [e |-> 1 + type_pair_index + (r2 % 3), dor |-> 1 - (r2 % 2)]

-----------------------------------------------------------------------------
(* ligand::evaluate *)

conformation(position, orientation, torsions) ==
    [position |-> position, orientation |-> orientation, torsions |-> torsions]

change(n) == [position |-> zero3, orientation |-> zero3, torsions |-> [t \in 1..n |-> 0]]

\* coordinates[i] = origin + orientation_m * heavy_atoms[i].coordinate
PlaceAtom(f, origin, i) ==
    [f EXCEPT !.coordinates[i + 1] =
                  VAdd(origin, MatVec(f.orientation_m, f.heavy_atoms[i + 1].coordinate))]

\* The loops "for (i = 1; i < heavy_atoms.size(); ++i)" of lines 351 and 382:
\* coordinates[i] is stored, then tested against the box
RECURSIVE PlaceAtoms(_, _, _, _)
PlaceAtoms(f, origin, i, b) ==
    IF i >= Len(f.heavy_atoms) THEN [f |-> f, ok |-> TRUE]
    ELSE CHOOSE r \in
            { IF ~within(b, f1.coordinates[i + 1]) THEN [f |-> f1, ok |-> FALSE]
              ELSE PlaceAtoms(f1, origin, i + 1, b) :
              f1 \in {PlaceAtom(f, origin, i)} } : TRUE

\* "Apply position and orientation to ROOT frame"
PlaceRoot(frames, cf, b) ==
    CHOOSE r \in
        { [frames |-> [frames EXCEPT ![1] = pr.f], ok |-> pr.ok] :
          pr \in { PlaceAtoms([frames[1] EXCEPT
                                  !.coordinates[1] = cf.position,
                                  !.orientation_q = cf.orientation,
                                  !.orientation_m = quaternion_to_matrix(cf.orientation)],
                              cf.position, 1, b) } } : TRUE

\* "Update origin" of frame k
PlaceOrigin(frames, k) ==
    LET f  == frames[k + 1]
        pf == frames[f.parent + 1]
    IN  [f EXCEPT !.coordinates[1] =
            VAdd(pf.coordinates[1], MatVec(pf.orientation_m, f.relative_origin))]

\* "Update orientation" of the active frame f from torsion t
Orient(frames, f, cf, t) ==
    LET pf == frames[f.parent + 1]
    IN  CHOOSE r \in
          { [f EXCEPT !.axis = axis, !.orientation_q = q,
                      !.orientation_m = quaternion_to_matrix(q)] :
            axis \in {MatVec(pf.orientation_m, f.relative_axis)},
            q \in {QMul(axis_angle_to_quaternion(
                            MatVec(pf.orientation_m, f.relative_axis), cf.torsions[t + 1]),
                        pf.orientation_q)} } : TRUE

\* "Apply torsions to BRANCH frames": frames k .. num_frames - 1, t the next
\* index into conf.torsions, reads the <<frame, index>> read so far
RECURSIVE PlaceBranches(_, _, _, _, _, _)
PlaceBranches(frames, k, t, reads, cf, b) ==
    IF k >= Len(frames) THEN [frames |-> frames, ok |-> TRUE, reads |-> reads]
    ELSE CHOOSE r \in
      { IF ~within(b, f1.coordinates[1])
        THEN [frames |-> [frames EXCEPT ![k + 1] = f1], ok |-> FALSE, reads |-> reads]
        ELSE IF ~f1.active
        THEN PlaceBranches([frames EXCEPT ![k + 1] = f1], k + 1, t, reads, cf, b)
        ELSE CHOOSE r2 \in
          { IF ~pa.ok
            THEN [frames |-> [frames EXCEPT ![k + 1] = pa.f], ok |-> FALSE,
                  reads |-> Append(reads, <<k, t>>)]
            ELSE PlaceBranches([frames EXCEPT ![k + 1] = pa.f], k + 1, t + 1,
                               Append(reads, <<k, t>>), cf, b) :
            pa \in {PlaceAtoms(Orient(frames, f1, cf, t), f1.coordinates[1], 1, b)} } : TRUE :
        f1 \in {PlaceOrigin(frames, k)} } : TRUE

\* All heavy atoms <<k, i>> in the order of the loops of lines 411 and 415
AtomOrder(frames) ==
    Flatten([k1 \in 1..Len(frames) |->
                [i1 \in 1..Len(frames[k1].heavy_atoms) |-> <<k1 - 1, i1 - 1>>]])

\* Lines 430 to 439: the four nodes of the map read for the cell index
GridReads(index) ==
    LET x0 == index[1]  y0 == index[2]  z0 == index[3]
    IN  << <<x0, y0, z0>>, <<x0 + 1, y0, z0>>, <<x0, y0 + 1, z0>>, <<x0, y0, z0 + 1>> >>

\* Lines 417 to 444 for the heavy atom i of frame k
GridAtom(frames, k, i, e, b) ==
    LET f == frames[k + 1]
        t == XsIndex(f.heavy_atoms[i + 1].xs)
        index == grid_index(b, f.coordinates[i + 1])
        n == GridReads(index)
        e000 == grid_map(t, n[1][1], n[1][2], n[1][3])
        e100 == grid_map(t, n[2][1], n[2][2], n[2][3])
        e010 == grid_map(t, n[3][1], n[3][2], n[3][3])
        e001 == grid_map(t, n[4][1], n[4][2], n[4][3])
        d == << (e100 - e000) * b.grid_granularity_inverse,
                (e010 - e000) * b.grid_granularity_inverse,
                (e001 - e000) * b.grid_granularity_inverse >>
    IN  [frames |-> [frames EXCEPT ![k + 1].energies[i + 1] = e000,
                                   ![k + 1].derivatives[i + 1] = d],
         e |-> e + e000]

\* Lines 410 to 446: the grid-map energy and derivative of every heavy atom
RECURSIVE GridLoop(_, _, _, _)
GridLoop(frames, atoms, e, b) ==
    IF atoms = <<>> THEN [frames |-> frames, e |-> e]
    ELSE CHOOSE r \in
            { GridLoop(st.frames, Tail(atoms), st.e, b) :
              st \in {GridAtom(frames, Head(atoms)[1], Head(atoms)[2], e, b)} } : TRUE

\* Faulty variant: a pair at the cutoff is evaluated too
InCutoffInclusive(r2) == r2 <= Cutoff_Sqr

\* The test of line 459
InCutoff(r2) == r2 < Cutoff_Sqr

\* Lines 454 to 466 for the pair p
PairStep(frames, p, e) ==
    LET r  == VSub(frames[p.k2 + 1].coordinates[p.i2 + 1],
                   frames[p.k1 + 1].coordinates[p.i1 + 1])
        r2 == norm_sqr(r)
    IN  IF InCutoff(r2)
        THEN LET element == sf_evaluate(p.type_pair_index, r2)
                 derivative == VScale(element.dor, r)
                 fr1 == [frames EXCEPT ![p.k1 + 1].derivatives[p.i1 + 1] =
                                              VSub(@, derivative)]
             IN  [frames |-> [fr1 EXCEPT ![p.k2 + 1].derivatives[p.i2 + 1] =
                                              VAdd(@, derivative)],
                  e |-> e + element.e]
        ELSE [frames |-> frames, e |-> e]

\* Lines 450 to 467: "Calculate intra-ligand free energy"
RECURSIVE PairLoop(_, _, _, _)
PairLoop(frames, pairs, n, e) ==
    IF n > Len(pairs) THEN [frames |-> frames, e |-> e]
    ELSE CHOOSE r \in
            { PairLoop(st.frames, pairs, n + 1, st.e) :
              st \in {PairStep(frames, pairs[n], e)} } : TRUE

\* Lines 497 and 498 (516 and 517 for the root) for atom i of frame f
AggregateAtom(f, i) ==
    [f EXCEPT
        !.force = VAdd(@, f.derivatives[i + 1]),
        !.torque = VAdd(@, cross_product(VSub(f.coordinates[i + 1], f.coordinates[1]),
                                         f.derivatives[i + 1]))]

\* The loop of lines 490 and 514 over the atoms 1 .. size - 1 of a frame
RECURSIVE Aggregate(_, _)
Aggregate(f, i) ==
    IF i >= Len(f.heavy_atoms) THEN f
    ELSE CHOOSE r \in { Aggregate(f1, i + 1) : f1 \in {AggregateAtom(f, i)} } : TRUE

\* Lines 501 to 503: the force and torque of frame f go to its parent
ToParent(frames, k, f) ==
    LET pf == frames[f.parent + 1]
    IN  [frames EXCEPT
            ![k + 1] = f,
            ![f.parent + 1] =
                [pf EXCEPT
                    !.force = VAdd(@, f.force),
                    !.torque = VAdd(@, VAdd(f.torque,
                        cross_product(VSub(f.coordinates[1], pf.coordinates[1]), f.force)))]]

\* Faulty variant: the frames are visited from 1 up to num_frames - 1, a
\* parent before its children
RECURSIVE BackwardFrom(_, _, _, _, _, _)
BackwardFrom(frames, j, last, t, g, writes) ==
    IF j > last THEN [frames |-> frames, g |-> g, writes |-> writes]
    ELSE CHOOSE r \in
      { IF ~f.active THEN BackwardFrom(fs, j + 1, last, t, g, writes)
        ELSE BackwardFrom(fs, j + 1, last, t + 1,
                          [g EXCEPT !.torsions[t + 1] = VDot(f.torque, f.axis)],
                          Append(writes, <<j, t>>)) :
        f \in {Aggregate(frames[j + 1], 1)},
        fs \in {ToParent(frames, j, Aggregate(frames[j + 1], 1))} } : TRUE

BackwardAscending(frames, k, t, g, writes) == BackwardFrom(frames, 1, k, 0, g, writes)

\* Lines 480 to 510: frames k down to 1, t the next index into g.torsions,
\* writes the <<frame, index>> written so far
RECURSIVE Backward(_, _, _, _, _)
Backward(frames, k, t, g, writes) ==
    IF k <= 0 THEN [frames |-> frames, g |-> g, writes |-> writes]
    ELSE CHOOSE r \in
      { IF ~f.active THEN Backward(fs, k - 1, t, g, writes)
        ELSE Backward(fs, k - 1, t - 1,
                      [g EXCEPT !.torsions[t + 1] = VDot(f.torque, f.axis)],
                      Append(writes, <<k, t>>)) :
        f \in {Aggregate(frames[k + 1], 1)},
        fs \in {ToParent(frames, k, Aggregate(frames[k + 1], 1))} } : TRUE

\* Faulty variant: a conformation at the upper bound is accepted
RefusesAbove(e, e_upper_bound) == e > e_upper_bound

\* The test of line 470
Refuses(e, e_upper_bound) == e >= e_upper_bound

\* The result of a call: the returned bool, the ligand as the call left it,
\* the caller's e, f and g, and the indices of conf.torsions and g.torsions
\* the call used
Returned(ret, lg, frames, e, f, g, reads, writes) ==
    [ ret |-> ret, lig |-> [lg EXCEPT !.frames = frames],
      e |-> e, f |-> f, g |-> g, reads |-> reads, writes |-> writes ]

\* Lines 472 to 478: "Initialize force and torque"
InitForces(frames) ==
    [k1 \in 1..Len(frames) |->
        [frames[k1] EXCEPT !.force = frames[k1].derivatives[1], !.torque = zero3]]

\* Lines 472 to 524: the conformation is accepted
Accept(lg, frames, e, f, g0, reads) ==
    CHOOSE r \in
      { CHOOSE r2 \in
          { Returned(TRUE, lg, [r6.frames EXCEPT ![1] = root], e, f,
                     [r6.g EXCEPT !.position = root.force, !.orientation = root.torque],
                     reads, r6.writes) :
            root \in {Aggregate(r6.frames[1], 1)} } : TRUE :
        r6 \in {Backward(InitForces(frames), lg.num_frames - 1,
                         lg.num_active_torsions - 1, g0, <<>>)} } : TRUE

\* Lines 410 to 470: the energies of the placed ligand
Score(lg, frames, b, e_upper_bound, g0, reads) ==
    CHOOSE r \in
      { CHOOSE r2 \in
          { IF Refuses(r4.e, e_upper_bound)
            THEN Returned(FALSE, lg, r4.frames, r4.e, r3.e, g0, reads, <<>>)
            ELSE Accept(lg, r4.frames, r4.e, r3.e, g0, reads) :
            r4 \in {PairLoop(r3.frames, lg.one_to_four_pairs, 1, r3.e)} } : TRUE :
        r3 \in {GridLoop(frames, AtomOrder(frames), 0, b)} } : TRUE

evaluate(lg, cf, b, e_upper_bound, e0, f0, g0) ==
    IF ~within(b, cf.position)
    THEN Returned(FALSE, lg, lg.frames, e0, f0, g0, <<>>, <<>>)
    ELSE CHOOSE r \in
      { IF ~r1.ok THEN Returned(FALSE, lg, r1.frames, e0, f0, g0, <<>>, <<>>)
        ELSE CHOOSE ra \in
          { IF ~r2.ok THEN Returned(FALSE, lg, r2.frames, e0, f0, g0, r2.reads, <<>>)
            ELSE Score(lg, r2.frames, b, e_upper_bound, g0, r2.reads) :
            r2 \in {PlaceBranches(r1.frames, 1, 0, <<>>, cf, b)} } : TRUE :
        r1 \in {PlaceRoot(lg.frames, cf, b)} } : TRUE

-----------------------------------------------------------------------------
(* The constructor, line by line, on the files of the parser's alphabet.   *)
(* Serial numbers count the ATOM lines of the file, as prepare_ligand4     *)
(* writes them; X of a BRANCH line is the serial of a heavy atom of the    *)
(* current frame or NoSerial, which no atom carries.                       *)

NoSerial == 0

NumLinesOfKind(file, kind) == Cardinality({n \in 1..Len(file) : file[n].kind = kind})

NextSerial == NumLinesOfKind(input, "ATOM") + 1

\* AutoDock types of the files parsed line by line; Zz is not supported
ParseADs == {"C", "HD", "Zz"}

\* The n-th atom of a file of the parser's alphabet sits at <<n, 0, 0>>
ChainPos(n) == <<n, 0, 0>>

Idle == [state |-> "unused"]

InitParse ==
    /\ input = <<>>
    /\ lig = NewLigand
    /\ conf = Idle /\ out = Idle /\ calls = 0 /\ main = Idle

Read(line) ==
    /\ lig.status = "parsing"
    /\ Len(input) < MaxLines
    /\ input' = Append(input, line)
    /\ lig' = ParseLine(lig, line)
    /\ UNCHANGED <<conf, out, calls, main>>

ReadAtom ==
    /\ NumLinesOfKind(input, "ATOM") < MaxAtoms
    /\ \E ad \in ParseADs : Read(AtomLine(NextSerial, ChainPos(NextSerial), ad))

ReadBranch ==
    /\ NumLinesOfKind(input, "BRANCH") < MaxBranches
    /\ \E x \in {NoSerial} \cup
                {lig.frames[lig.current + 1].numbers[n] :
                    n \in 1..Len(lig.frames[lig.current + 1].numbers)} :
          Read(BranchLine(x))

ReadEndBranch == Read(EndBranchLine)

\* ROOT opens the retained lines of a file
ReadRoot == lig.lines = <<>> /\ Read(RootLine)

\* REMARK lines head a file
ReadRemark == input = <<>> /\ Read(RemarkLine)

EndOfFile ==
    /\ lig.status = "parsing"
    /\ lig' = FinishLigand(lig)
    /\ UNCHANGED <<input, conf, out, calls, main>>

NextParse ==
    ReadAtom \/ ReadBranch \/ ReadEndBranch \/ ReadRoot \/ ReadRemark \/ EndOfFile

SpecParse == InitParse /\ [][NextParse]_vars

-----------------------------------------------------------------------------
(* The constructor on well-formed files of carbon atoms placed along the x *)
(* axis: every atom lies one or two lattice units after the atom of the    *)
(* line before it (bonded to it or not), X of a BRANCH names a heavy atom  *)
(* of the current frame, ENDBRANCH closes a BRANCH that holds an atom.     *)

Steps == {1, 2}

LastAtomX ==
    LET at == {n \in 1..Len(input) : input[n].kind = "ATOM"}
    IN  IF at = {} THEN -1
        ELSE input[CHOOSE n \in at : \A m \in at : m <= n].pos[1]

InitPairs == InitParse

ReadPairAtom ==
    /\ Len(input) < MaxPairLines
    /\ NumLinesOfKind(input, "ATOM") < MaxPairAtoms
    /\ \E d \in Steps :
          IF LastAtomX < 0 THEN Read(AtomLine(NextSerial, zero3, "C"))
          ELSE Read(AtomLine(NextSerial, <<LastAtomX + d, 0, 0>>, "C"))

ReadPairBranch ==
    /\ Len(input) < MaxPairLines
    /\ NumLinesOfKind(input, "BRANCH") < MaxBranches
    /\ \E n \in 1..Len(lig.frames[lig.current + 1].numbers) :
          Read(BranchLine(lig.frames[lig.current + 1].numbers[n]))

ReadPairEndBranch ==
    /\ Len(input) < MaxPairLines
    /\ lig.current # 0
    /\ lig.frames[lig.current + 1].heavy_atoms # <<>>
    /\ Read(EndBranchLine)

PairsEndOfFile == ~HasEmptyFrame(lig) /\ EndOfFile

NextPairs == ReadPairAtom \/ ReadPairBranch \/ ReadPairEndBranch \/ PairsEndOfFile

SpecPairs == InitPairs /\ [][NextPairs]_vars

-----------------------------------------------------------------------------
(* evaluate, called repeatedly on a constructed ligand.  The ligand files  *)
(* are a rigid atom, a branch of one atom, a branch that turns an atom     *)
(* about its rotor, an inactive branch before an active one, and a ligand  *)
(* whose 1-4 pairs lie below, at and beyond the cutoff, a branch nested in *)
(* a branch, and a file with a                                             *)
(* BRANCH line whose X names no atom before the BRANCH of its only frame.  *)

MaxCalls == 2

EvalFiles ==
    { << RootLine, AtomLine(1, <<0, 0, 0>>, "C") >>,
      << AtomLine(1, <<0, 0, 0>>, "C"),
         BranchLine(1), AtomLine(2, <<1, 0, 0>>, "C"), EndBranchLine >>,
      << AtomLine(1, <<0, 0, 0>>, "C"), AtomLine(2, <<1, 0, 0>>, "C"),
         BranchLine(2), AtomLine(3, <<2, 0, 0>>, "C"), AtomLine(4, <<2, 1, 0>>, "C"),
         EndBranchLine >>,
      << AtomLine(1, <<0, 0, 0>>, "C"),
         BranchLine(1), AtomLine(2, <<1, 0, 0>>, "C"), EndBranchLine,
         BranchLine(1), AtomLine(3, <<0, 1, 0>>, "C"), AtomLine(4, <<0, 1, 1>>, "C"),
         EndBranchLine >>,
      << AtomLine(1, <<0, 0, 0>>, "C"), AtomLine(2, <<1, 0, 9>>, "C"),
         AtomLine(3, <<1, 0, 5>>, "C"),
         BranchLine(1), AtomLine(4, <<1, 0, 0>>, "C"), AtomLine(5, <<1, 1, 0>>, "C"),
         EndBranchLine >>,
      << AtomLine(1, <<0, 0, 0>>, "C"),
         BranchLine(1), AtomLine(2, <<1, 0, 0>>, "C"),
         BranchLine(2), AtomLine(3, <<2, 0, 0>>, "C"), AtomLine(4, <<2, 1, 0>>, "C"),
         EndBranchLine, EndBranchLine >>,
      << AtomLine(1, <<0, 0, 0>>, "C"),
         BranchLine(NoSerial), AtomLine(2, <<0, 1, 0>>, "C"), EndBranchLine,
         BranchLine(1), AtomLine(3, <<1, 0, 0>>, "C"), AtomLine(4, <<1, 1, 0>>, "C"),
         EndBranchLine >> }

EvalPositions == { zero3, <<1, 1, 1>>, box.corner2, <<BoxSize + 1, 1, 1>> }

\* no turn, and a quarter turn about z
EvalOrientations == { qt_identity, <<1, 0, 0, 1>> }

EvalTorsions == {0, 1}

EvalBounds == {-1, 0, 3}

InitEval ==
    /\ \E file \in EvalFiles : input = file /\ lig = ligand(file)
    /\ out = [ ret |-> FALSE, e |-> 0, f |-> 0, g |-> change(lig.num_active_torsions),
               reads |-> <<>>, writes |-> <<>> ]
    /\ conf = Idle /\ calls = 0 /\ main = Idle

Evaluate ==
    /\ calls < MaxCalls
    /\ \E p \in EvalPositions, o \in EvalOrientations, ub \in EvalBounds,
          ts \in [1..lig.num_active_torsions -> EvalTorsions] :
          \E r \in {evaluate(lig, conformation(p, o, ts), box, ub, out.e, out.f, out.g)} :
              /\ lig' = r.lig
              /\ conf' = [conf |-> conformation(p, o, ts), e_upper_bound |-> ub]
              /\ out' = [ ret |-> r.ret, e |-> r.e, f |-> r.f, g |-> r.g,
                          reads |-> r.reads, writes |-> r.writes ]
    /\ calls' = calls + 1
    /\ UNCHANGED <<input, main>>

NextEval == Evaluate

SpecEval == InitEval /\ [][NextEval]_vars

-----------------------------------------------------------------------------
(* ligand::compose_result and ligand::write_models *)

result(e, f, heavy_atoms, hydrogens) ==
    [e |-> e, f |-> f, heavy_atoms |-> heavy_atoms, hydrogens |-> hydrogens]

\* Faulty variant: the hydrogens are turned but not moved to the origin
ComposeAtomsHydrogensUnmoved(f, origin, m) ==
    [ heavy_atoms |-> [i \in 1..Len(f.heavy_atoms) |->
                          IF i = 1 THEN origin
                          ELSE VAdd(origin, MatVec(m, f.heavy_atoms[i].coordinate))],
      hydrogens |-> [i \in 1..Len(f.hydrogens) |->
                          MatVec(m, f.hydrogens[i].coordinate)] ]

\* Lines 540 to 549 and 568 to 576: the atoms of a frame from its origin and
\* its orientation; the first heavy atom is the origin itself
ComposeAtoms(f, origin, m) ==
    [ heavy_atoms |-> [i \in 1..Len(f.heavy_atoms) |->
                          IF i = 1 THEN origin
                          ELSE VAdd(origin, MatVec(m, f.heavy_atoms[i].coordinate))],
      hydrogens |-> [i \in 1..Len(f.hydrogens) |->
                          VAdd(origin, MatVec(m, f.hydrogens[i].coordinate))] ]

\* Lines 552 to 577: the BRANCH frames k .. num_frames - 1; t is the next
\* index into conf.torsions; acc holds orientations_q, orientations_m,
\* heavy_atoms and hydrogens of the frames before k
RECURSIVE ComposeBranches(_, _, _, _, _)
ComposeBranches(frames, k, t, acc, cf) ==
    IF k >= Len(frames) THEN acc
    ELSE CHOOSE r \in
      { ComposeBranches(frames, k + 1, IF frames[k + 1].active THEN t + 1 ELSE t,
            [ q |-> Append(acc.q, q), m |-> Append(acc.m, quaternion_to_matrix(q)),
              heavy_atoms |-> Append(acc.heavy_atoms, at.heavy_atoms),
              hydrogens |-> Append(acc.hydrogens, at.hydrogens) ], cf) :
        q \in { QMul(axis_angle_to_quaternion(
                        MatVec(acc.m[frames[k + 1].parent + 1], frames[k + 1].relative_axis),
                        IF frames[k + 1].active THEN cf.torsions[t + 1] ELSE 0),
                     acc.q[frames[k + 1].parent + 1]) },
        at \in { ComposeAtoms(frames[k + 1],
                    VAdd(acc.heavy_atoms[frames[k + 1].parent + 1][1],
                         MatVec(acc.m[frames[k + 1].parent + 1],
                                frames[k + 1].relative_origin)),
                    quaternion_to_matrix(
                        QMul(axis_angle_to_quaternion(
                                MatVec(acc.m[frames[k + 1].parent + 1],
                                       frames[k + 1].relative_axis),
                                IF frames[k + 1].active THEN cf.torsions[t + 1] ELSE 0),
                             acc.q[frames[k + 1].parent + 1]))) } } : TRUE

\* Lines 527 to 578
compose_result(l, e, f, cf) ==
    CHOOSE r \in
      { result(e, f, acc.heavy_atoms, acc.hydrogens) :
        acc \in { ComposeBranches(l.frames, 1, 0,
                    [ q |-> <<cf.orientation>>,
                      m |-> <<quaternion_to_matrix(cf.orientation)>>,
                      heavy_atoms |-> <<root.heavy_atoms>>,
                      hydrogens |-> <<root.hydrogens>> ], cf) :
                  root \in { ComposeAtoms(l.frames[1], cf.position,
                                          quaternion_to_matrix(cf.orientation)) } } } : TRUE

\* A read past the end of a vector of the result: any value, or a crash
Undefined3 == <<>>

\* r.heavy_atoms[frame][heavy_atom] and r.hydrogens[frame][hydrogen]
ResultAt(atoms, fr, i) ==
    IF fr < Len(atoms) /\ i < Len(atoms[fr + 1])
    THEN atoms[fr + 1][i + 1] ELSE Undefined3

\* line[77] == 'H': the AutoDock type starts with the letter H
TypeStartsWithH(ad) == ad \in {"H", "HD", "HS", "Hg"}

\* setw(8) with setprecision(3): a number of more than eight characters
\* pushes the columns after it to the right
setw8(x) == IF -999 <= x /\ x <= 9999 THEN x ELSE "wide"

Columns(v) == IF v = Undefined3 THEN v ELSE <<setw8(v[1]), setw8(v[2]), setw8(v[3])>>

\* Line 599: line.size() >= 79 is taken for "starts with ATOM or HETATM"
IsAtomLine(line) == line.size >= 79

\* Lines 597 to 619: the retained lines j .. num_lines - 1 of one model
RECURSIVE WriteLines(_, _, _, _, _, _)
WriteLines(lines, j, fr, heavy_atom, hydrogen, r) ==
    IF j >= Len(lines) THEN <<>>
    ELSE CHOOSE w \in
      { IF IsAtomLine(line)
        THEN IF TypeStartsWithH(line.ad)
             THEN << [line EXCEPT !.pos = Columns(ResultAt(r.hydrogens, fr, hydrogen))] >>
                    \o WriteLines(lines, j + 1, fr, heavy_atom, hydrogen + 1, r)
             ELSE << [line EXCEPT !.pos = Columns(ResultAt(r.heavy_atoms, fr, heavy_atom))] >>
                    \o WriteLines(lines, j + 1, fr, heavy_atom + 1, hydrogen, r)
        ELSE IF line.kind = "BRANCH"
             THEN <<line>> \o WriteLines(lines, j + 1, fr + 1, 0, 0, r)
             ELSE <<line>> \o WriteLines(lines, j + 1, fr, heavy_atom, hydrogen, r) :
        line \in {lines[j + 1]} } : TRUE

ModelLine(n) == [kind |-> "MODEL", n |-> n]

FreeEnergyLine(e) == [kind |-> "REMARK FREE ENERGY", e |-> e]

EndmdlLine == [kind |-> "ENDMDL"]

\* Lines 580 to 624: the models i .. num_conformations - 1
RECURSIVE write_models_from(_, _, _, _)
write_models_from(lines, results, i, num_conformations) ==
    IF i >= num_conformations THEN <<>>
    ELSE CHOOSE w \in
      { << ModelLine(i + 1), FreeEnergyLine(results[i + 1].e) >> \o body \o << EndmdlLine >>
            \o write_models_from(lines, results, i + 1, num_conformations) :
        body \in { WriteLines(lines, 0, 0, 0, 0, results[i + 1]) } } : TRUE

write_models(l, results, num_conformations) ==
    write_models_from(l.lines, results, 0, num_conformations)

-----------------------------------------------------------------------------
(* The constructor, compose_result and write_models on files of nitrogen,  *)
(* carbon and polar hydrogen atoms.  The first atom lies at the origin or  *)
(* far from it, the others one lattice unit apart next to the origin.  In  *)
(* this specification conf is the sequence of conformations composed, and  *)
(* out holds the results and the lines written.                            *)

\* longest file, in lines
MaxModelLines == 6
\* most ATOM lines of a file
MaxModelAtoms == 3
\* most BRANCH lines of a file
MaxModelBranches == 1
\* most results composed
MaxResults == 2

\* a coordinate whose distance to the atoms near the origin is no value of fl
FarPos == <<-(2^FlBits), 0, 0>>

ModelPositions(n) == IF n = 1 THEN {zero3, FarPos} ELSE {ChainPos(n - 1)}

\* the ATOM lines a file may hold: types N, C and HD, and a carbon line cut
\* after column 78
ModelAtomLines(n) ==
    { AtomLine(n, p, ad) : p \in ModelPositions(n), ad \in {"N", "C", "HD"} }
        \cup { ShortAtomLine(n, p, "C") : p \in IF n = 1 THEN ModelPositions(n) ELSE {} }

InitModels ==
    /\ input = <<>>
    /\ lig = NewLigand
    /\ conf = <<>>
    /\ out = [results |-> <<>>, num_conformations |-> 0, models |-> <<>>]
    /\ calls = 0 /\ main = Idle

ReadModel(line) == Len(input) < MaxModelLines /\ Read(line)

ModelRoot == input = <<>> /\ ReadModel(RootLine)

ModelAtom ==
    /\ input # <<>>
    /\ NumLinesOfKind(input, "ATOM") < MaxModelAtoms
    /\ \E line \in ModelAtomLines(NextSerial) : ReadModel(line)

ModelBranch ==
    /\ input # <<>>
    /\ NumLinesOfKind(input, "BRANCH") < MaxModelBranches
    /\ \E x \in {lig.frames[lig.current + 1].numbers[n] :
                    n \in 1..Len(lig.frames[lig.current + 1].numbers)} :
          ReadModel(BranchLine(x))

ModelEndBranch ==
    /\ NumLinesOfKind(input, "ENDBRANCH") < NumLinesOfKind(input, "BRANCH")
    /\ ReadModel(EndBranchLine)

\* the input coordinate of the first heavy atom of the root frame
OriginalPosition ==
    input[CHOOSE n \in 1..Len(input) :
            input[n].kind = "ATOM" /\ input[n].serial = lig.frames[1].numbers[1]].pos

NumActive(l) == Cardinality({k \in 2..Len(l.frames) : l.frames[k].active})

\* the conformation of the input: the root at its original position, no
\* rotation, every torsion zero
InputConformation ==
    conformation(OriginalPosition, qt_identity, [t \in 1..NumActive(lig) |-> 0])

\* the conformations composed: that of the input, and a pose moved along y
\* and turned a quarter about z
ModelConformations ==
    { InputConformation,
      conformation(VAdd(OriginalPosition, <<0, 2, 0>>), <<1, 0, 0, 1>>,
                   [t \in 1..NumActive(lig) |-> 0]) }

\* result r = compose_result(e, f, conf) is appended to the results
Compose ==
    /\ lig.status = "done"
    /\ out.models = <<>>
    /\ Len(out.results) < MaxResults
    /\ \E cf \in ModelConformations :
          /\ conf' = Append(conf, cf)
          /\ \E r \in {compose_result(lig, 0, 0, cf)} :
                out' = [out EXCEPT !.results = Append(@, r)]
    /\ UNCHANGED <<input, lig, calls, main>>

\* write_models(output_ligand, results, num_conformations)
WriteModels ==
    /\ lig.status = "done"
    /\ out.models = <<>>
    /\ \E n \in 1..Len(out.results) :
          \E w \in {write_models(lig, out.results, n)} :
             out' = [out EXCEPT !.num_conformations = n, !.models = w]
    /\ UNCHANGED <<input, lig, conf, calls, main>>

NextModels ==
    ModelRoot \/ ModelAtom \/ ModelBranch \/ ModelEndBranch \/ EndOfFile
        \/ Compose \/ WriteModels

SpecModels == InitModels /\ [][NextModels]_vars

-----------------------------------------------------------------------------
(* main.  input is the sequence of ligand files the directory iterator of  *)
(* the docking loop has yielded so far; lig is the ligand object of the    *)
(* current loop iteration.                                                 *)
(* The main thread, the OpenCL runtime and the workers of the io service   *)
(* pool interleave at the statements named by main.pc and by the position  *)
(* of each post-processing task in TaskProgram.                            *)

MaxLigands == 3

MaxDevices == 2

MainFiles ==
    { << RootLine, AtomLine(1, zero3, "C") >>,
      << RootLine, AtomLine(1, zero3, "Zz") >>,
      << RootLine, AtomLine(1, zero3, "N"), AtomLine(2, ChainPos(1), "C"),
         BranchLine(2), AtomLine(3, ChainPos(2), "C"), AtomLine(4, ChainPos(3), "C"),
         EndBranchLine >> }

\* iota(idle.begin(), idle.end(), 0)
iota(n) == [i \in 1..n |-> i - 1]

\* safe_vector: safe_pop_back blocks while the vector is empty
safe_pop_back_ready(v) == v # <<>>

safe_pop_back_value(v) == v[Len(v)]

safe_pop_back_rest(v) == SubSeq(v, 1, Len(v) - 1)

safe_push_back(v, x) == Append(v, x)

\* Faulty variant: the task signals the main thread before it writes
TaskProgramPushFirst == << "push", "write", "unmap", "print" >>

\* The statements of the task posted by the completion callback, in order
TaskProgram == << "write", "unmap", "print", "push" >>

\* scoring_function::n, the number of XScore types
sf_n == 3

\* num_trees, the size of the random forest
NumTrees == 2

\* rec.num_probes[2], the number of z slabs of a grid map
NumSlabs == 2

XsTypes == 0..(sf_n - 1)

Slabs == 0..(NumSlabs - 1)

Trees == 0..(NumTrees - 1)

\* The command line and the paths it names.  argc is 1 for a bare call;
\* parsed is FALSE when parse_command_line throws; module, receptor and
\* input_folder are absent, name nothing of the wanted kind, or are valid; box
\* stands for the six center and size options.
CommandLines ==
    { o \in [ argc : {1, 2}, parsed : BOOLEAN, help : BOOLEAN, version : BOOLEAN,
              module : {"absent", "invalid", "valid"},
              receptor : {"absent", "invalid", "valid"},
              input_folder : {"absent", "invalid", "valid"},
              box : BOOLEAN ] :
        o.argc = 1 => /\ o.parsed /\ ~o.help /\ ~o.version /\ ~o.box
                      /\ o.module = "absent" /\ o.receptor = "absent"
                      /\ o.input_folder = "absent" }

\* What the output path is on the file system: a directory, another file,
\* or nothing, where create_directories succeeds or fails
OutputPaths == {"directory", "file", "creatable", "uncreatable"}

\* Line 156: create_directories(output_folder_path) makes the folder
create_directories(output) == IF output = "creatable" THEN "directory" ELSE output

\* Lines 65 to 73 and 122: vm.notify() throws unless every required option
\* has a value
RequiredPresent(o) ==
    /\ o.module # "absent" /\ o.receptor # "absent" /\ o.input_folder # "absent"
    /\ o.box

\* Lines 96 to 167: the outcome of the try block, an exit status or "pass"
option_status(o, output) ==
    IF ~o.parsed THEN "1"
    ELSE IF o.argc = 1 \/ o.help THEN "0"
    ELSE IF o.version THEN "0"
    ELSE IF ~RequiredPresent(o) THEN "1"
    ELSE IF o.module # "valid" THEN "1"
    ELSE IF o.receptor # "valid" THEN "1"
    ELSE IF o.input_folder # "valid" THEN "1"
    ELSE IF output = "file" THEN "1"
    ELSE IF output # "directory" /\ create_directories(output) # "directory" THEN "1"
    ELSE "pass"

\* safe_counter: init(n), increment() and the test wait() blocks on
cnt_init(n) == [n |-> n, i |-> 0]

cnt_increment(c) == [c EXCEPT !.i = @ + 1]

cnt_reached(c) == c.i = c.n

\* scoring_function: precalculate(t1, t2) fills the entries of the pair in
\* the table e (counted here); clear() drops the scratch vector rs
sf_precalculate(sf, t1, t2) == [sf EXCEPT !.e[<<t1, t2>>] = @ + 1]

sf_clear(sf) == [sf EXCEPT !.rs = FALSE]

\* Lines 176 to 178: the loops over t2 and t1 <= t2 that post the tasks
SfPairs == { p \in XsTypes \X XsTypes : p[1] <= p[2] }

Job(kind, a, b) == [kind |-> kind, a |-> a, b |-> b]

\* lig.atoms: the XScore type index of every heavy atom, in frame order
AtomTypes(l) ==
    Flatten([k \in 1..Len(l.frames) |->
                [i \in 1..Len(l.frames[k].heavy_atoms) |->
                    XsIndex(l.frames[k].heavy_atoms[i].xs)]])

\* Faulty variant: the map is taken for empty whatever it holds
MapEmptyAlways(m) == TRUE

\* Line 344: rec.maps[t].empty()
MapEmpty(m) == ~m.resized

\* Lines 340 to 349: the types of the ligand whose grid map is empty, each
\* resized as it is found
RECURSIVE NewTypes(_, _)
NewTypes(types, maps) ==
    IF types = <<>> THEN [xs |-> <<>>, maps |-> maps]
    ELSE CHOOSE r \in
           { IF MapEmpty(maps[Head(types)])
             THEN [xs |-> <<Head(types)>> \o rest.xs, maps |-> rest.maps]
             ELSE rest :
               rest \in { NewTypes(Tail(types),
                            IF MapEmpty(maps[Head(types)])
                            THEN [maps EXCEPT ![Head(types)].resized = TRUE]
                            ELSE maps) } } : TRUE

\* rec.populate(sf, xs, z): slab z of the map of every type of xs is written
populate(maps, xs, z) ==
    [t \in DOMAIN maps |->
        IF \E n \in 1..Len(xs) : xs[n] = t
        THEN [maps[t] EXCEPT !.slabs[z] = @ + 1] ELSE maps[t]]

\* Lines 374 to 383: the types not yet recorded for the device
RECURSIVE Uncopied(_, _)
Uncopied(types, have) ==
    IF types = <<>> THEN have
    ELSE CHOOSE r \in
           { Uncopied(Tail(types), h) :
               h \in { IF \E n \in 1..Len(have) : have[n] = Head(types)
                       THEN have ELSE Append(have, Head(types)) } } : TRUE

InitMain ==
    /\ input = <<>>
    /\ lig = Idle /\ conf = Idle /\ out = Idle /\ calls = 0
    /\ \E o \in CommandLines, f \in OutputPaths :
          main = [ pc |-> "options", opts |-> o, output |-> f,
                   cnt |-> cnt_init(0), jobs |-> {},
                   sf |-> [e |-> [p \in SfPairs |-> 0], rs |-> FALSE],
                   forest |-> [i \in Trees |-> 0],
                   maps |-> [t \in XsTypes |->
                               [resized |-> FALSE, slabs |-> [z \in Slabs |-> 0]]],
                   xs |-> <<>>, xst |-> <<>>,
                   num_devices |-> 0, next |-> 1, dev |-> 0,
                   idle |-> <<>>, cbex |-> <<>>,
                   tasks |-> <<>>, mutex |-> 0, printed |-> <<>>, log |-> <<>>,
                   sorted |-> FALSE, exit |-> "none" ]

\* Lines 47 to 167: the options are parsed and validated; the output folder
\* is created when it does not exist
ParseOptions ==
    /\ main.pc = "options"
    /\ \E st \in {option_status(main.opts, main.output)} :
          main' = IF st = "pass"
                  THEN [main EXCEPT !.pc = "sf_post",
                                    !.output = create_directories(@)]
                  ELSE [main EXCEPT !.pc = "exited", !.exit = st]
    /\ UNCHANGED <<input, lig, conf, out, calls>>

\* Faulty variant: the counter expects the pairs with t1 < t2 only
SfCountStrict == (sf_n * (sf_n - 1)) \div 2

\* Line 175: cnt.init(sf.n * (sf.n + 1) >> 1)
SfCount == (sf_n * (sf_n + 1)) \div 2

\* Lines 174 to 185: cnt.init and one posted task per pair of types
PostScoring ==
    /\ main.pc = "sf_post"
    /\ main' = [main EXCEPT !.pc = "sf_wait",
                            !.sf.rs = TRUE,
                            !.cnt = cnt_init(SfCount),
                            !.jobs = { Job("sf", p[1], p[2]) : p \in SfPairs }]
    /\ UNCHANGED <<input, lig, conf, out, calls>>

\* Lines 181 and 182, on a worker: sf.precalculate(t1, t2); cnt.increment()
RunScoring(j) ==
    /\ j \in main.jobs /\ j.kind = "sf"
    /\ main' = [main EXCEPT !.jobs = @ \ {j},
                            !.sf = sf_precalculate(@, j.a, j.b),
                            !.cnt = cnt_increment(@)]
    /\ UNCHANGED <<input, lig, conf, out, calls>>

\* Line 186: cnt.wait()
WaitScoring ==
    /\ main.pc = "sf_wait"
    /\ cnt_reached(main.cnt)
    /\ main' = [main EXCEPT !.pc = "receptor"]
    /\ UNCHANGED <<input, lig, conf, out, calls>>

\* Lines 188 and 189: the receptor is parsed; its grid maps are empty
ParseReceptor ==
    /\ main.pc = "receptor"
    /\ main' = [main EXCEPT !.pc = "devices"]
    /\ UNCHANGED <<input, lig, conf, out, calls>>

\* Faulty variant: no device is reported like an argument error
NoDeviceExitOne == "1"

\* Lines 203 to 208: if (!num_devices) ... return 2
NoDeviceExit == "2"

\* Lines 191 to 208: the runtime reports the devices; none ends main with 2
DetectDevices ==
    /\ main.pc = "devices"
    /\ \E n \in 0..MaxDevices :
          main' = IF n = 0
                  THEN [main EXCEPT !.pc = "exited", !.exit = NoDeviceExit]
                  ELSE [main EXCEPT !.pc = "setup", !.num_devices = n]
    /\ UNCHANGED <<input, lig, conf, out, calls>>

\* Lines 209 to 312: contexts, queues, kernels and buffers of every device;
\* sf.e and sf.d are copied to the devices, sf.clear() drops the scratch rs,
\* and every device is idle
SetupDevices ==
    /\ main.pc = "setup"
    /\ main' = [main EXCEPT !.pc = "forest_post",
                            !.sf = sf_clear(@),
                            !.idle = iota(main.num_devices),
                            !.cbex = [d \in 0..(main.num_devices - 1) |-> "null"],
                            !.xst = [d \in 0..(main.num_devices - 1) |-> <<>>]]
    /\ UNCHANGED <<input, lig, conf, out, calls>>

\* Faulty variant: the counter expects one tree more than is posted
TreeCountLong == NumTrees + 1

\* Line 314: cnt.init(num_trees)
TreeCount == NumTrees

\* Lines 314 to 324: cnt.init(num_trees) and one posted task per tree
PostForest ==
    /\ main.pc = "forest_post"
    /\ main' = [main EXCEPT !.pc = "forest_wait",
                            !.cnt = cnt_init(TreeCount),
                            !.jobs = { Job("tree", i, 0) : i \in Trees }]
    /\ UNCHANGED <<input, lig, conf, out, calls>>

\* Lines 321 and 322, on a worker: f[i].train(5, f.u01_s); cnt.increment()
RunTree(j) ==
    /\ j \in main.jobs /\ j.kind = "tree"
    /\ main' = [main EXCEPT !.jobs = @ \ {j},
                            !.forest[j.a] = @ + 1,
                            !.cnt = cnt_increment(@)]
    /\ UNCHANGED <<input, lig, conf, out, calls>>

\* Lines 325 to 333: cnt.wait(), f.clear(), the log and cbex
WaitForest ==
    /\ main.pc = "forest_wait"
    /\ cnt_reached(main.cnt)
    /\ main' = [main EXCEPT !.pc = "parse"]
    /\ UNCHANGED <<input, lig, conf, out, calls>>

\* Lines 334 to 337: the iterator yields the next file of the folder and
\* ligand lig(dir_iter->path()) is constructed, outside any try block: a
\* parsing_error leaves main and ends the process
ParseLigand ==
    /\ main.pc = "parse"
    /\ Len(input) < MaxLigands
    /\ \E file \in MainFiles :
          /\ input' = Append(input, file)
          /\ \E l \in {ligand(file)} :
                /\ lig' = l
                /\ main' = IF l.status = "thrown"
                           THEN [main EXCEPT !.pc = "terminated", !.exit = "abort"]
                           ELSE [main EXCEPT !.pc = "maps"]
    /\ UNCHANGED <<conf, out, calls>>

\* Faulty variant: the counter expects one slab too few
SlabCountShort == NumSlabs - 1

\* Line 358: cnt.init(rec.num_probes[2])
SlabCount == NumSlabs

\* Lines 339 to 366: the new atom types xs, their maps resized, and when
\* there are any rec.precalculate, cnt.init and one posted task per z slab
CreateGridMaps ==
    /\ main.pc = "maps"
    /\ \E r \in {NewTypes(AtomTypes(lig), main.maps)} :
          main' = IF r.xs = <<>>
                  THEN [main EXCEPT !.pc = "pop", !.xs = <<>>]
                  ELSE [main EXCEPT !.pc = "maps_wait",
                                    !.xs = r.xs,
                                    !.maps = r.maps,
                                    !.cnt = cnt_init(SlabCount),
                                    !.jobs = { Job("slab", z, 0) : z \in Slabs }]
    /\ UNCHANGED <<input, lig, conf, out, calls>>

\* Lines 362 and 363, on a worker: rec.populate(sf, xs, z); cnt.increment()
RunSlab(j) ==
    /\ j \in main.jobs /\ j.kind = "slab"
    /\ main' = [main EXCEPT !.jobs = @ \ {j},
                            !.maps = populate(main.maps, main.xs, j.a),
                            !.cnt = cnt_increment(@)]
    /\ UNCHANGED <<input, lig, conf, out, calls>>

\* Line 367: cnt.wait()
WaitGridMaps ==
    /\ main.pc = "maps_wait"
    /\ cnt_reached(main.cnt)
    /\ main' = [main EXCEPT !.pc = "pop"]
    /\ UNCHANGED <<input, lig, conf, out, calls>>

\* Lines 371 to 396: const int dev = idle.safe_pop_back(), and the types of
\* the ligand are recorded in xst[dev]
PopIdle ==
    /\ main.pc = "pop"
    /\ safe_pop_back_ready(main.idle)
    /\ \E d \in {safe_pop_back_value(main.idle)} :
          main' = [main EXCEPT !.pc = "encode",
                               !.dev = d,
                               !.idle = safe_pop_back_rest(main.idle),
                               !.xst[d] = Uncopied(AtomTypes(lig), @)]
    /\ UNCHANGED <<input, lig, conf, out, calls>>

\* Lines 411 to 416: lig.encode(ligh) on the mapped ligd[dev]
Encode ==
    /\ main.pc = "encode"
    /\ main' = [main EXCEPT !.pc = "clear"]
    /\ UNCHANGED <<input, lig, conf, out, calls>>

\* Lines 428 to 440: clear slnd[dev]
ClearSolution ==
    /\ main.pc = "clear"
    /\ main' = [main EXCEPT !.pc = "launch"]
    /\ UNCHANGED <<input, lig, conf, out, calls>>

\* Lines 442 to 521: the kernel, the map of cnfh, the user event cbex[dev] and
\* the callback that owns the moved ligand
Launch ==
    /\ main.pc = "launch"
    /\ main' = [main EXCEPT
                  !.pc = "parse",
                  !.next = @ + 1,
                  !.cbex[main.dev] = "pending",
                  !.tasks = Append(@, [lig |-> main.next, dev |-> main.dev,
                                       types |-> AtomTypes(lig),
                                       stage |-> "kernel", ip |-> 1])]
    /\ lig' = Idle
    /\ UNCHANGED <<input, conf, out, calls>>

\* The runtime completes the kernel and the map of a ligand: output_event
OutputComplete(n) ==
    /\ main.pc # "terminated" /\ main.pc # "exited"
    /\ main.tasks[n].stage = "kernel"
    /\ main' = [main EXCEPT !.tasks[n].stage = "callback"]
    /\ UNCHANGED <<input, lig, conf, out, calls>>

\* Lines 477 to 520: the callback posts the task and completes cbex
Callback(n) ==
    /\ main.pc # "terminated" /\ main.pc # "exited"
    /\ main.tasks[n].stage = "callback"
    /\ main' = [main EXCEPT !.tasks[n].stage = "posted",
                            !.cbex[main.tasks[n].dev] = "complete"]
    /\ UNCHANGED <<input, lig, conf, out, calls>>

\* the statement a worker executes next in task n
Statement(n) ==
    IF main.tasks[n].stage = "posted" /\ main.tasks[n].ip <= Len(TaskProgram)
    THEN TaskProgram[main.tasks[n].ip] ELSE "none"

Advance(m, n) ==
    [m EXCEPT !.tasks[n].ip = @ + 1,
              !.tasks[n].stage = IF m.tasks[n].ip = Len(TaskProgram) THEN "done" ELSE @]

TaskStep(n, stmt) ==
    /\ main.pc # "terminated" /\ main.pc # "exited"
    /\ Statement(n) = stmt
    /\ UNCHANGED <<input, lig, conf, out, calls>>

\* Line 499: lig.write(cnfh, ...)
Write(n) == TaskStep(n, "write") /\ main' = Advance(main, n)

\* Line 502: unmap cnfh
Unmap(n) == TaskStep(n, "unmap") /\ main' = Advance(main, n)

\* safe_function: operator() runs its argument under a mutex; holder is the
\* task inside it, 0 when none is
safe_function_free(holder) == holder = 0

\* Faulty variant: the row shows the size of the log
PrintedIndexZeroBased(log) == Len(log)

\* Line 508: the index of the row, log.size() + 1
PrintedIndex(log) == Len(log) + 1

\* Lines 505 to 512: safe_print is entered and the row is written to cout
PrintRow(n) ==
    /\ TaskStep(n, "print")
    /\ safe_function_free(main.mutex)
    /\ main' = [main EXCEPT !.mutex = n,
                            !.printed = Append(@, [index |-> PrintedIndex(main.log),
                                                   lig |-> main.tasks[n].lig,
                                                   dev |-> main.tasks[n].dev])]

\* Lines 513 and 514: log.push_back(new log_record(...)) and safe_print is left
PushRecord(n) ==
    /\ TaskStep(n, "print")
    /\ main.mutex = n
    /\ main' = Advance([main EXCEPT !.mutex = 0,
                                    !.log = Append(@, main.printed[Len(main.printed)])], n)

\* Lines 505 to 515: the row is printed and the record pushed under safe_print
SafePrint(n) == PrintRow(n) \/ PushRecord(n)

\* Line 518: idle.safe_push_back(dev)
PushIdle(n) ==
    /\ TaskStep(n, "push")
    /\ main' = Advance([main EXCEPT !.idle = safe_push_back(@, main.tasks[n].dev)], n)

\* an end of the folder: the loop of line 334 is left
EndOfFolder ==
    /\ main.pc = "parse"
    /\ main' = [main EXCEPT !.pc = "sync"]
    /\ UNCHANGED <<input, lig, conf, out, calls>>

\* Faulty variant: main goes on to the log without io.wait()
AfterSynchronizeNoWait == "log"

\* Line 532: io.wait() follows the synchronization of the queues
AfterSynchronize == "iowait"

\* Lines 524 to 529: clFinish(queues[dev]) and clWaitForEvents(cbex[dev])
Synchronize ==
    /\ main.pc = "sync"
    /\ \A n \in 1..Len(main.tasks) : main.tasks[n].stage # "kernel"
    /\ \A d \in 0..(main.num_devices - 1) : main.cbex[d] # "pending"
    /\ main' = [main EXCEPT !.pc = AfterSynchronize]
    /\ UNCHANGED <<input, lig, conf, out, calls>>

\* Lines 531 to 552: io.wait() and the release of the devices
IoWait ==
    /\ main.pc = "iowait"
    /\ \A n \in 1..Len(main.tasks) : main.tasks[n].stage = "done"
    /\ main' = [main EXCEPT !.pc = "log"]
    /\ UNCHANGED <<input, lig, conf, out, calls>>

\* Lines 555 to 558: an empty log returns 0; else log.sort(), log.write
\* and the end of main
WriteLog ==
    /\ main.pc = "log"
    /\ main' = [main EXCEPT !.pc = "exited", !.exit = "0",
                            !.sorted = (main.log # <<>>)]
    /\ UNCHANGED <<input, lig, conf, out, calls>>

NextMain ==
    \/ ParseOptions \/ PostScoring \/ WaitScoring \/ ParseReceptor \/ DetectDevices
    \/ SetupDevices \/ PostForest \/ WaitForest
    \/ ParseLigand \/ CreateGridMaps \/ WaitGridMaps
    \/ PopIdle \/ Encode \/ ClearSolution \/ Launch
    \/ EndOfFolder \/ Synchronize \/ IoWait \/ WriteLog
    \/ \E j \in main.jobs : RunScoring(j) \/ RunTree(j) \/ RunSlab(j)
    \/ \E n \in 1..Len(main.tasks) :
          \/ OutputComplete(n) \/ Callback(n)
          \/ Write(n) \/ Unmap(n) \/ SafePrint(n) \/ PushIdle(n)

SpecMain == InitMain /\ [][NextMain]_vars

-----------------------------------------------------------------------------
(* Properties of the constructed ligand *)

Frames == lig.frames

NumFrames == Len(lig.frames)

Constructed == lig.status = "done"

IsLeaf(k) == \A c \in 1..(NumFrames - 1) : Frames[c + 1].parent # k

\* C1: every frame k >= 1 has frames[k].parent < k, after any sequence of
\* lines (at every point of the parse and after construction).
C1_ParentBeforeChild ==
    \A k \in 1..(NumFrames - 1) : Frames[k + 1].parent < k

C1_Witness ==
    /\ Constructed
    /\ \E k \in 1..(NumFrames - 1) : Frames[k + 1].parent >= 1

\* BRANCH and ENDBRANCH lines of the file match each other
WellNested ==
    /\ NumLinesOfKind(input, "BRANCH") = NumLinesOfKind(input, "ENDBRANCH")
    /\ \A n \in 1..Len(input) :
          NumLinesOfKind(SubSeq(input, 1, n), "ENDBRANCH")
            <= NumLinesOfKind(SubSeq(input, 1, n), "BRANCH")

\* X of every BRANCH line named a heavy atom of the frame it was read in
AllBranchesResolved == NumFrames = 1 + NumLinesOfKind(input, "BRANCH")

\* C2 (as claimed): after construction every non-root frame that holds
\* exactly one heavy atom is inactive, frames with nested BRANCH frames too
\* (stated for files whose BRANCH lines are matched and resolved).
C2_SingleHeavyInactive ==
    (Constructed /\ WellNested /\ AllBranchesResolved) =>
        \A k \in 1..(NumFrames - 1) : NumHeavy(Frames, k) = 1 => ~Frames[k + 1].active

\* C2 (amended): after construction every non-root frame that holds exactly
\* one heavy atom, has no child frame and is not the frame left open at the
\* end of the file is inactive.
C2_LeafSingleHeavyInactive ==
    Constructed =>
        \A k \in 1..(NumFrames - 1) :
            (NumHeavy(Frames, k) = 1 /\ IsLeaf(k) /\ k # lig.current)
                => ~Frames[k + 1].active

C2_Witness ==
    /\ Constructed
    /\ \E k \in 1..(NumFrames - 1) :
          /\ NumHeavy(Frames, k) = 1 /\ IsLeaf(k) /\ k # lig.current
          /\ ~Frames[k + 1].active
    /\ \E k \in 1..(NumFrames - 1) : NumHeavy(Frames, k) = 1 /\ Frames[k + 1].active

\* The bond graph: heavy atoms <<k, i>>, joined when they are neighbours in
\* one frame or are rotorX and rotorY of a non-root frame.
HeavyAtoms == {<<k, i>> : k \in 0..(NumFrames - 1), i \in 0..(MaxPairAtoms + 1)}
                \cap UNION {{<<k, i>> : i \in 0..(NumHeavy(Frames, k) - 1)} :
                                k \in 0..(NumFrames - 1)}

IsRotorBond(a, b) ==
    /\ b[1] >= 1 /\ b[2] = 0
    /\ a[1] = Frames[b[1] + 1].parent /\ a[2] = Frames[b[1] + 1].rotorX

Bonded(a, b) ==
    /\ a # b
    /\ \/ a[1] = b[1] /\ is_neighbor(Frames[a[1] + 1].heavy_atoms[a[2] + 1],
                                      Frames[b[1] + 1].heavy_atoms[b[2] + 1])
       \/ IsRotorBond(a, b) \/ IsRotorBond(b, a)

WithinThreeBonds(a, b) ==
    \/ Bonded(a, b)
    \/ \E c \in HeavyAtoms : Bonded(a, c) /\ Bonded(c, b)
    \/ \E c, d \in HeavyAtoms : Bonded(a, c) /\ Bonded(c, d) /\ Bonded(d, b)

Pairs == lig.one_to_four_pairs

Occurrences(a, b) ==
    Cardinality({n \in 1..Len(Pairs) :
        /\ Pairs[n].k1 = a[1] /\ Pairs[n].i1 = a[2]
        /\ Pairs[n].k2 = b[1] /\ Pairs[n].i2 = b[2]})

\* C3: every entry (k1,i1,k2,j) of one_to_four_pairs has k1 < k2 and its
\* two heavy atoms are not joined by a path of 3 or fewer bonds.
C3_PairsAreFar ==
    Constructed =>
        \A n \in 1..Len(Pairs) :
            /\ Pairs[n].k1 < Pairs[n].k2
            /\ <<Pairs[n].k1, Pairs[n].i1>> \in HeavyAtoms
            /\ <<Pairs[n].k2, Pairs[n].i2>> \in HeavyAtoms
            /\ ~WithinThreeBonds(<<Pairs[n].k1, Pairs[n].i1>>, <<Pairs[n].k2, Pairs[n].i2>>)

\* a pair is listed, and rotorX and rotorY of some frame are three bonds
\* away from atoms of the other frame
C3_Witness ==
    /\ Constructed
    /\ Pairs # <<>>
    /\ \E a, b \in HeavyAtoms :
          a[1] < b[1] /\ ~Bonded(a, b) /\ WithinThreeBonds(a, b) /\ Occurrences(a, b) = 0

\* C4 (as claimed): every pair of heavy atoms of frames k1 < k2 that is not
\* within 3 bonds and is not (rotorX, rotorY) of frame k2 is listed once.
C4_AllFarPairsListed ==
    (Constructed /\ WellNested) =>
        \A a, b \in HeavyAtoms :
            (a[1] < b[1] /\ ~WithinThreeBonds(a, b) /\ ~IsRotorBond(a, b))
                => Occurrences(a, b) = 1

\* The pairs line 292 skips whatever their distance: k1 is the parent of k2
\* and the pair holds rotorY of k2 (j = 0) or rotorX of k2
OnRotorAxis(a, b) ==
    /\ a[1] = Frames[b[1] + 1].parent
    /\ (b[2] = 0 \/ a[2] = Frames[b[1] + 1].rotorX)

\* C4 (amended): every pair of heavy atoms of frames k1 < k2 that is not
\* within 3 bonds, and is not a pair of a parent frame and its child that
\* holds the child's rotorY or the child's rotorX, is listed exactly once;
\* no pair is listed twice.
C4_FarPairsOffAxisListed ==
    Constructed =>
        \A a, b \in HeavyAtoms :
            /\ Occurrences(a, b) <= 1
            /\ (a[1] < b[1] /\ ~WithinThreeBonds(a, b) /\ ~OnRotorAxis(a, b))
                    => Occurrences(a, b) = 1

C4_Witness ==
    /\ Constructed
    /\ \E a, b \in HeavyAtoms :
          /\ a[1] < b[1] /\ ~WithinThreeBonds(a, b) /\ ~OnRotorAxis(a, b)
          /\ Occurrences(a, b) = 1
    /\ \E a, b \in HeavyAtoms :
          /\ a[1] < b[1] /\ ~WithinThreeBonds(a, b) /\ OnRotorAxis(a, b)
          /\ Occurrences(a, b) = 0

ActiveFrames == {k \in 1..(NumFrames - 1) : Frames[k + 1].active}

\* C6 (the constructor's part): for a ligand built from well-nested BRANCH
\* and ENDBRANCH lines, num_active_torsions is the number of active non-root
\* frames and num_torsions = num_frames - 1 >= num_active_torsions.
C6_ActiveTorsionCount ==
    (Constructed /\ WellNested) =>
        /\ lig.num_active_torsions = Cardinality(ActiveFrames)
        /\ lig.num_torsions = lig.num_frames - 1
        /\ lig.num_torsions >= lig.num_active_torsions

\* The lines the constructor is documented to reject
IsOffending(st, line) ==
    \/ line.kind = "ATOM" /\ line.ad \notin SupportedAD
    \/ line.kind = "ENDBRANCH" /\ st.frames[st.current + 1].heavy_atoms = <<>>

\* C8: the constructor throws a parsing_error exactly when it reads an ATOM
\* line of unsupported type or an ENDBRANCH while the current frame holds no
\* heavy atom; the error carries the 1-based number of that line in the
\* file, and nothing else (the end of the file included) throws.
C8_ParsingError ==
    [][ /\ (input' # input) =>
            /\ (lig'.status = "thrown") <=> IsOffending(lig, input'[Len(input')])
            /\ (lig'.status = "thrown") =>
                    /\ lig'.err.line = Len(input')
                    /\ lig'.err.reason # "none"
        /\ (input' = input) => lig'.status # "thrown" ]_vars

\* an error on a line that follows a line the parser does not retain
C8_Witness ==
    /\ lig.status = "thrown"
    /\ input[1].kind = "REMARK"
    /\ lig.err.line = Len(input)
    /\ input[Len(input)].kind = "ENDBRANCH"

-----------------------------------------------------------------------------
(* Properties of evaluate: the pose of a conformation, stated frame by     *)
(* frame from the conformation alone                                       *)

Evaluated == calls > 0

\* the number of active frames among frames 1 .. k - 1
TorsionOf(k) == Cardinality({j \in 1..(k - 1) : Frames[j + 1].active})

RECURSIVE PoseQ(_)
PoseQ(k) ==
    IF k = 0 THEN conf.conf.orientation
    ELSE LET p == Frames[k + 1].parent
         IN  IF ~Frames[k + 1].active THEN PoseQ(p)
             ELSE QMul(axis_angle_to_quaternion(
                          MatVec(quaternion_to_matrix(PoseQ(p)), Frames[k + 1].relative_axis),
                          conf.conf.torsions[TorsionOf(k) + 1]),
                       PoseQ(p))

RECURSIVE PoseOrigin(_)
PoseOrigin(k) ==
    IF k = 0 THEN conf.conf.position
    ELSE LET p == Frames[k + 1].parent
         IN  VAdd(PoseOrigin(p),
                  MatVec(quaternion_to_matrix(PoseQ(p)), Frames[k + 1].relative_origin))

PoseAtom(k, i) ==
    IF i = 0 THEN PoseOrigin(k)
    ELSE VAdd(PoseOrigin(k),
              MatVec(quaternion_to_matrix(PoseQ(k)), Frames[k + 1].heavy_atoms[i + 1].coordinate))

\* the atoms evaluate places: every atom of the root and of an active frame,
\* the origin of an inactive frame
PlacedAtoms == {a \in HeavyAtoms : a[2] = 0 \/ a[1] = 0 \/ Frames[a[1] + 1].active}

PoseInside ==
    /\ within(box, conf.conf.position)
    /\ \A a \in PlacedAtoms : within(box, PoseAtom(a[1], a[2]))

RECURSIVE SumOver(_, _)
SumOver(fn, S) ==
    IF S = {} THEN 0
    ELSE LET x == CHOOSE y \in S : TRUE IN fn[x] + SumOver(fn, S \ {x})

PoseGridEnergy ==
    SumOver([a \in HeavyAtoms |->
                LET ix == grid_index(box, PoseAtom(a[1], a[2]))
                IN  grid_map(XsIndex(Frames[a[1] + 1].heavy_atoms[a[2] + 1].xs),
                             ix[1], ix[2], ix[3])],
            HeavyAtoms)

PairDistanceSqr(n) ==
    LET p == lig.one_to_four_pairs[n]
    IN  distance_sqr(PoseAtom(p.k1, p.i1), PoseAtom(p.k2, p.i2))

PairsInRange == {n \in 1..Len(lig.one_to_four_pairs) : PairDistanceSqr(n) < Cutoff_Sqr}

PosePairEnergy ==
    SumOver([n \in PairsInRange |->
                sf_evaluate(lig.one_to_four_pairs[n].type_pair_index, PairDistanceSqr(n)).e],
            PairsInRange)

\* C5: evaluate returns true exactly when conf.position and every placed heavy
\* atom lie within the box and the total free energy e is strictly below
\* e_upper_bound; e equal to e_upper_bound is refused.
C5_AcceptsInsideAndBelow ==
    Evaluated =>
        (out.ret <=> /\ PoseInside
                     /\ PoseGridEnergy + PosePairEnergy < conf.e_upper_bound)

\* a pose inside the box is refused because e equals e_upper_bound
C5_Witness ==
    /\ Evaluated
    /\ PoseInside
    /\ PoseGridEnergy + PosePairEnergy = conf.e_upper_bound
    /\ ~out.ret
    /\ lig.num_active_torsions > 0

-----------------------------------------------------------------------------
(* Properties of main *)

Running == main # Idle

Devices == 0..(main.num_devices - 1)

Tasks == 1..Len(main.tasks)

\* task n has signalled the main thread
Pushed(n) ==
    \E i \in 1..(main.tasks[n].ip - 1) : i <= Len(TaskProgram) /\ TaskProgram[i] = "push"

\* task n has left lig.write
Written(n) ==
    \E i \in 1..(main.tasks[n].ip - 1) : i <= Len(TaskProgram) /\ TaskProgram[i] = "write"

MainHolds(d) == main.pc \in {"encode", "clear", "launch"} /\ main.dev = d

\* the ligands in flight on device d: the one main dispatches and the launched
\* ones whose task has not returned the device
InFlight(d) ==
    Cardinality({n \in Tasks : main.tasks[n].dev = d /\ ~Pushed(n)})
        + (IF MainHolds(d) THEN 1 ELSE 0)

IdleCount(d) == Cardinality({i \in 1..Len(main.idle) : main.idle[i] = d})

\* main is past line 312: the idle pool exists
Docking ==
    /\ Running
    /\ main.pc \notin {"options", "sf_post", "sf_wait", "receptor", "devices", "setup"}
    /\ main.num_devices > 0

\* C9: a parsing error of one ligand file of the folder does not end the run:
\* the ligand is skipped and the loop goes on with the remaining ligands.
C9_ParseErrorSkipped == Running => main.pc # "terminated"

\* C10: at most one ligand is in flight on a device; a device is out of the
\* idle pool while a ligand is encoded onto it and until that ligand's task
\* has left lig.write, so encode and clear never overlap lig.write on the
\* device; idle devices plus in-flight ligands equal num_devices.
C10_OneLigandPerDevice ==
    Docking =>
        /\ \A d \in Devices : InFlight(d) + IdleCount(d) = 1
        /\ \A n \in Tasks : ~Written(n) => IdleCount(main.tasks[n].dev) = 0
        /\ \A n \in Tasks :
              (main.pc \in {"encode", "clear"} /\ main.dev = main.tasks[n].dev)
                  => Written(n)
        /\ Len(main.idle)
              + Cardinality({n \in Tasks : ~Pushed(n)})
              + (IF \E d \in Devices : MainHolds(d) THEN 1 ELSE 0)
           = main.num_devices

\* main encodes a second ligand onto a device whose first ligand is done while
\* the ligand of another device is being written
C10_Witness ==
    /\ Running
    /\ main.pc = "encode"
    /\ \E n \in Tasks : main.tasks[n].dev = main.dev /\ main.tasks[n].stage = "done"
    /\ \E n \in Tasks : main.tasks[n].dev # main.dev /\ Statement(n) = "write"

\* the grid map of type t holds every slab
Populated(t) ==
    main.maps[t].resized /\ \A z \in Slabs : main.maps[t].slabs[z] >= 1

\* the grid map of type t holds some slabs and lacks others
PartlyPopulated(t) ==
    /\ main.maps[t].resized
    /\ \E z \in Slabs : main.maps[t].slabs[z] >= 1
    /\ \E z \in Slabs : main.maps[t].slabs[z] = 0

TypesOf(types) == { types[i] : i \in 1..Len(types) }

\* the kernel or the post-processing task of ligand n may still read the maps
Reading(n) == main.tasks[n].stage # "done"

TypesNeeded ==
    UNION { TypesOf(main.tasks[n].types) : n \in Tasks }
        \cup (IF lig # Idle /\ lig.status = "done" THEN TypesOf(AtomTypes(lig)) ELSE {})

\* type t occurs exactly once in xs
OnceIn(xs, t) == Cardinality({i \in 1..Len(xs) : xs[i] = t}) = 1

\* C12: the grid map of a type is populated at most once in a run and only
\* when a ligand needs it: a type enters xs only while its map is empty, at
\* most once per ligand, and never again for a later ligand.
C12_MapPopulatedOnce ==
    [][ main'.maps # main.maps =>
          /\ \A t \in XsTypes : \A z \in Slabs :
                /\ main'.maps[t].slabs[z] <= 1
                /\ main'.maps[t].slabs[z] # main.maps[t].slabs[z] =>
                      t \in TypesOf(main.xs) /\ t \in TypesNeeded
          /\ \A t \in XsTypes : main'.maps[t].resized => t \in TypesNeeded'
          /\ \A t \in XsTypes : main'.maps[t].resized # main.maps[t].resized =>
                /\ main.pc = "maps"
                /\ ~main.maps[t].resized
                /\ OnceIn(main'.xs, t)
                /\ t \in TypesOf(AtomTypes(lig))
          /\ main.pc = "maps" => \A t \in TypesOf(main'.xs) : ~main.maps[t].resized
      ]_vars

\* two atoms of the first ligand share a type, every map was populated once,
\* and the next ligand, of types already mapped, asks for no map
C12_Witness ==
    /\ Docking
    /\ main.pc = "pop" /\ main.xs = <<>> /\ Len(main.tasks) = 1
    /\ Len(main.tasks[1].types) > Cardinality(TypesOf(main.tasks[1].types))
    /\ TypesOf(AtomTypes(lig)) # {}
    /\ \A t \in TypesOf(main.tasks[1].types) : \A z \in Slabs : main.maps[t].slabs[z] = 1

\* main is past the cnt.wait() of line 186
TableJoined ==
    /\ Running
    /\ main.pc \notin {"options", "sf_post", "sf_wait"}
    /\ main.pc = "exited" => (main.exit = "2" \/ main.num_devices > 0)

\* C13: the scoring-function table is built exactly once, by one task per
\* pair (t1, t2) with t1 <= t2, all joined before the receptor is parsed and
\* before any ligand is processed, and it is not modified afterwards, also
\* not while grid maps are populated from it.
C13_TableBuiltOnce ==
    [][ /\ TableJoined' =>
              /\ \A p \in SfPairs : main'.sf.e[p] = 1
              /\ \A j \in main'.jobs : j.kind # "sf"
        /\ TableJoined => main'.sf.e = main.sf.e
        /\ \A p \in SfPairs : main'.sf.e[p] <= 1
      ]_vars

\* a slab of a grid map is being populated from the finished table
C13_Witness ==
    /\ TableJoined
    /\ main.pc = "maps_wait"
    /\ \E t \in XsTypes : PartlyPopulated(t)
    /\ \A p \in SfPairs : main.sf.e[p] = 1
    /\ ~main.sf.rs

\* the records of the log that belong to ligand l
RecordsOf(l) == {i \in 1..Len(main.log) : main.log[i].lig = l}

\* C14: the log is sorted and written only after every post-processing task
\* has appended its record: when log.sort() runs the log holds exactly one
\* record per dispatched ligand, whatever the order in which they completed.
C14_LogCompleteAtSort ==
    [][ (main.pc = "log" /\ main'.pc = "exited") =>
            /\ \A n \in Tasks : main.tasks[n].stage = "done"
            /\ Len(main.log) = Len(main.tasks)
            /\ \A n \in Tasks : Cardinality(RecordsOf(main.tasks[n].lig)) = 1
            /\ main'.log = main.log
      ]_vars

\* the sorted log holds the records of two ligands that completed in the
\* reverse of their dispatch order
C14_Witness ==
    /\ Running /\ main.pc = "exited" /\ main.sorted
    /\ Len(main.log) >= 2
    /\ main.log[1].lig > main.log[2].lig

\* C15: a row is printed and its record appended inside one serialized
\* safe_print section, so the printed indices log.size() + 1 are 1..N, each
\* exactly once, N the number of ligands whose task printed.
C15_PrintedIndices ==
    Docking =>
        /\ \A i \in 1..Len(main.printed) : main.printed[i].index = i
        /\ \A i \in 1..Len(main.log) : main.log[i] = main.printed[i]
        /\ Len(main.printed) = Len(main.log) + (IF main.mutex = 0 THEN 0 ELSE 1)
        /\ main.mutex # 0 =>
              /\ main.mutex \in Tasks
              /\ main.printed[Len(main.printed)].lig = main.tasks[main.mutex].lig
        /\ \A n \in Tasks :
              Cardinality({i \in 1..Len(main.printed) :
                              main.printed[i].lig = main.tasks[n].lig})
                 = (IF main.tasks[n].stage = "done" \/ main.mutex = n
                       \/ (main.tasks[n].stage = "posted" /\ Statement(n) = "push")
                    THEN 1 ELSE 0)

\* a task is inside safe_print, after a first row, while another task is
\* about to enter it
C15_Witness ==
    /\ Docking
    /\ Len(main.log) >= 1
    /\ \E a \in Tasks, b \in Tasks :
          /\ a # b
          /\ main.mutex = a
          /\ Statement(b) = "print"

\* --help, --version or no argument at all
AsksUsage(o) == o.argc = 1 \/ o.help \/ o.version

\* the options the specification lists as required, with valid paths
ListedOptionsValid(o) == o.receptor = "valid" /\ o.input_folder = "valid" /\ o.box

\* the options the program requires, with valid paths
RequiredOptionsValid(o) == ListedOptionsValid(o) /\ o.module = "valid"

\* main has returned from the try block of the options
Rejected(status) == main'.pc = "exited" /\ main'.exit = status

\* the step of main that parses the command line o, when valid is what
\* passes the validation of the paths, and every later return of main
ExitStatusAsStated(o, valid) ==
    /\ main.pc = "options" =>
          /\ (~o.parsed) => Rejected("1")
          /\ (o.parsed /\ AsksUsage(o)) => Rejected("0")
          /\ (o.parsed /\ ~AsksUsage(o) /\ ~valid) => Rejected("1")
          /\ (o.parsed /\ ~AsksUsage(o) /\ valid) =>
                IF main.output \in {"file", "uncreatable"}
                THEN Rejected("1")
                ELSE /\ main'.pc # "exited" /\ main'.exit = "none"
                     /\ main'.output = "directory"
    /\ main.pc # "options" =>
          /\ main'.output = main.output
          /\ main'.exit = "2" <=>
                (main'.pc = "exited" /\ main.pc = "devices" /\ main'.num_devices = 0)
          /\ main'.exit = "0" <=> (main'.pc = "exited" /\ main.pc = "log")
          /\ main'.exit # "1"
          /\ main.pc = "log" => \A n \in Tasks : main.tasks[n].stage = "done"

AtomLines == {n \in 1..Len(input) : input[n].kind = "ATOM"}

InputPos(serial) ==
    input[CHOOSE n \in AtomLines : input[n].serial = serial].pos

\* the input coordinate of the first heavy atom of frame k
FrameOrigin(k) == InputPos(Frames[k + 1].numbers[1])

\* the hydrogens of all frames, as <<frame, index>>
Hydrogens ==
    UNION {{<<k, i>> : i \in 0..(Len(Frames[k + 1].hydrogens) - 1)} :
              k \in 0..(NumFrames - 1)}

\* C20: after construction the first heavy atom of every frame is stored
\* with coordinate (0,0,0), and every other heavy atom and every hydrogen is
\* stored with its input coordinate minus the input coordinate of that first
\* heavy atom.
C20_RelativeCoordinates ==
    (lig # Idle /\ Constructed) =>
        /\ \A k \in 0..(NumFrames - 1) :
              /\ Frames[k + 1].heavy_atoms[1].coordinate = zero3
              /\ \A i \in 1..NumHeavy(Frames, k) :
                    Frames[k + 1].heavy_atoms[i].coordinate
                        = VSub(InputPos(Frames[k + 1].numbers[i]), FrameOrigin(k))
        /\ \A n \in AtomLines :
              is_hydrogen(atom(input[n].pos, parse_ad_type_string(input[n].ad))) =>
                 Cardinality({h \in Hydrogens :
                    Frames[h[1] + 1].hydrogens[h[2] + 1].coordinate
                        = VSub(input[n].pos, FrameOrigin(h[1]))}) = 1
        /\ Cardinality(Hydrogens)
              = Cardinality({n \in AtomLines :
                   is_hydrogen(atom(input[n].pos, parse_ad_type_string(input[n].ad)))})

\* a branch frame whose first heavy atom is away from the input origin holds
\* a hydrogen
C20_Witness ==
    /\ lig # Idle /\ Constructed
    /\ \E k \in 1..(NumFrames - 1) :
          /\ FrameOrigin(k) # zero3
          /\ Frames[k + 1].hydrogens # <<>>
          /\ Frames[k + 1].hydrogens[1].coordinate # zero3

\* the results composed from the conformation of the input
InputResults ==
    {n \in 1..Len(out.results) : conf[n] = InputConformation}

\* the ATOM lines of hydrogens
HydrogenLines ==
    {n \in AtomLines : is_hydrogen(atom(input[n].pos, parse_ad_type_string(input[n].ad)))}

\* the number of frames between frame k and the root
RECURSIVE Depth(_)
Depth(k) == IF k = 0 THEN 0 ELSE 1 + Depth(Frames[k + 1].parent)

\* the largest magnitude of an input coordinate
Magnitude ==
    CHOOSE m \in {Abs(input[n].pos[c]) : n \in AtomLines, c \in 1..3} :
        \A n \in AtomLines : \A c \in 1..3 : Abs(input[n].pos[c]) <= m

\* the rounding error of compose_result at frame k: a subtraction in the
\* constructor and an addition in compose_result per frame on the way from
\* the root, each off by half the distance between neighbouring values at
\* the magnitude of a difference of two coordinates; 0 when all are exact
RoundingError(k) == 2 * (Depth(k) + 1) * (fl_ulp(2 * Magnitude) \div 2)

Near(a, b, tol) == \A c \in 1..3 : Abs(a[c] - b[c]) <= tol

\* a result reproduces the input coordinates within tol(k) in frame k
Reproduces(r, tol(_)) ==
    /\ \A a \in HeavyAtoms :
          Near(r.heavy_atoms[a[1] + 1][a[2] + 1],
               InputPos(Frames[a[1] + 1].numbers[a[2] + 1]), tol(a[1]))
    /\ \A n \in HydrogenLines : \E h \in Hydrogens :
          Near(r.hydrogens[h[1] + 1][h[2] + 1], input[n].pos, tol(h[1]))
    /\ \A h \in Hydrogens : \E n \in HydrogenLines :
          Near(r.hydrogens[h[1] + 1][h[2] + 1], input[n].pos, tol(h[1]))
    /\ Cardinality(Hydrogens) = Cardinality(HydrogenLines)

Exactly(k) == 0

\* C18: round trip: compose_result on the conformation of the input
\* (position the original coordinate of the root's first heavy atom,
\* identity orientation, every torsion zero) returns for every heavy atom
\* and every hydrogen of every frame exactly the coordinate read from the
\* file.
C18_RoundTripExact ==
    (out # Idle /\ lig # Idle /\ Constructed) =>
        \A n \in InputResults : Reproduces(out.results[n], Exactly)

\* C18 up to the rounding of fl: the root's first heavy atom exactly, every
\* other atom within the rounding error of the sums on its way from the root
C18_RoundTripRounded ==
    (out # Idle /\ lig # Idle /\ Constructed) =>
        \A n \in InputResults :
            /\ Reproduces(out.results[n], RoundingError)
            /\ out.results[n].heavy_atoms[1][1] = OriginalPosition
            /\ fl_ulp(2 * Magnitude) = 1 => Reproduces(out.results[n], Exactly)

\* the conformation of the input composed for a ligand with a branch and a
\* hydrogen, one atom of which does not come back to its input coordinate
C18_Witness ==
    /\ out # Idle /\ lig # Idle /\ Constructed
    /\ NumFrames >= 2 /\ Hydrogens # {}
    /\ \E n \in InputResults :
          /\ Reproduces(out.results[n], RoundingError)
          /\ ~Reproduces(out.results[n], Exactly)

\* the atom the parser made of the retained ATOM line: <<frame, index>>, by
\* its serial number for a heavy atom, by its stored coordinate for a hydrogen
HeavyAtomOf(line) ==
    CHOOSE a \in HeavyAtoms : Frames[a[1] + 1].numbers[a[2] + 1] = line.serial

HydrogenOf(line) ==
    CHOOSE h \in Hydrogens :
        Frames[h[1] + 1].hydrogens[h[2] + 1].coordinate
            = VSub(line.pos, FrameOrigin(h[1]))

\* the coordinate of result r for the atom of a retained ATOM line
ResultCoordinate(r, line) ==
    IF is_hydrogen(atom(line.pos, parse_ad_type_string(line.ad)))
    THEN r.hydrogens[HydrogenOf(line)[1] + 1][HydrogenOf(line)[2] + 1]
    ELSE r.heavy_atoms[HeavyAtomOf(line)[1] + 1][HeavyAtomOf(line)[2] + 1]

\* the retained lines as write_models is to emit them for result r
Rewritten(r) ==
    [j \in 1..Len(lig.lines) |->
        IF lig.lines[j].kind = "ATOM"
        THEN [lig.lines[j] EXCEPT !.pos = Columns(ResultCoordinate(r, lig.lines[j]))]
        ELSE lig.lines[j]]

\* the block of model i
Block(i) ==
    << ModelLine(i), FreeEnergyLine(out.results[i].e) >>
        \o Rewritten(out.results[i]) \o << EndmdlLine >>

\* C17: write_models emits, for each of the first num_conformations
\* results in order, a block MODEL i+1 ... ENDMDL that holds every retained
\* input line in input order: an ATOM/HETATM line with its coordinate
\* columns replaced by the result coordinate of the atom the parser made of
\* it (same frame, same index among the heavy atoms or the hydrogens of the
\* frame), every other line unchanged.
C17_ModelsRewritten ==
    (out # Idle /\ lig # Idle /\ Constructed /\ out.models # <<>>) =>
        out.models = Flatten([i \in 1..out.num_conformations |-> Block(i)])

\* C17 holds for the files whose ATOM lines are 79 characters or longer and
\* precede every ENDBRANCH of their frame
AtomsBeforeEndBranch ==
    \A n \in AtomLines : \A m \in 1..(n - 1) : input[m].kind # "ENDBRANCH"

LongAtomLines == \A n \in AtomLines : input[n].size >= 79

ModelsRewrittenWhenWellFormed ==
    (out # Idle /\ lig # Idle /\ Constructed /\ out.models # <<>>
        /\ LongAtomLines /\ AtomsBeforeEndBranch)
      => out.models = Flatten([i \in 1..out.num_conformations |-> Block(i)])

\* the ATOM line a stored hydrogen was read from
LineOfHydrogen(h) ==
    CHOOSE n \in HydrogenLines :
        Frames[h[1] + 1].hydrogens[h[2] + 1].coordinate
            = VSub(input[n].pos, FrameOrigin(h[1]))

\* the heavy atoms of frame k that can donate a hydrogen bond and are bonded
\* to hydrogen i of that frame, by the coordinates of the file
HeteroNeighbours(k, i) ==
    {a \in HeavyAtoms :
        /\ a[1] = k
        /\ is_hetero(Frames[k + 1].heavy_atoms[a[2] + 1])
        /\ distance_sqr(input[LineOfHydrogen(<<k, i>>)].pos,
                        InputPos(Frames[k + 1].numbers[a[2] + 1])) <= NeighborSqr}

PolarHydrogens == {h \in Hydrogens : Frames[h[1] + 1].hydrogens[h[2] + 1].ad = "HD"}

IsDonor(a) == Frames[a[1] + 1].heavy_atoms[a[2] + 1].xs \in {"N_D", "N_DA", "O_DA"}

\* every donor is a hetero neighbour, in its frame, of a polar hydrogen
DonorsHavePolarHydrogen ==
    (lig # Idle /\ Constructed) =>
        \A a \in HeavyAtoms :
            IsDonor(a) => \E h \in PolarHydrogens :
                              h[1] = a[1] /\ a \in HeteroNeighbours(h[1], h[2])

\* every polar hydrogen with a hetero neighbour in its frame has one marked
PolarHydrogensHaveDonor ==
    (lig # Idle /\ Constructed) =>
        \A h \in PolarHydrogens :
            HeteroNeighbours(h[1], h[2]) # {} =>
                \E a \in HeteroNeighbours(h[1], h[2]) : IsDonor(a)

\* C19: after construction, for every polar hydrogen (type HD) with a
\* bonded hetero heavy atom in its own frame, a bonded hetero heavy atom of
\* that frame is marked as donor, in whichever order the two lines appear in
\* the file; and no heavy atom is marked as donor unless it is a hetero
\* neighbour, in the same frame, of some HD hydrogen.
C19_DonorsMarked ==
    (lig # Idle /\ Constructed) =>
        /\ \A h \in PolarHydrogens :
              HeteroNeighbours(h[1], h[2]) # {} =>
                  \E a \in HeteroNeighbours(h[1], h[2]) : IsDonor(a)
        /\ \A a \in HeavyAtoms :
              IsDonor(a) => \E h \in PolarHydrogens :
                                h[1] = a[1] /\ a \in HeteroNeighbours(h[1], h[2])

\* the polar hydrogens whose line follows the line of a hetero neighbour
HydrogenAfterNeighbour(h) ==
    \E a \in HeteroNeighbours(h[1], h[2]) : \E m \in 1..(LineOfHydrogen(h) - 1) :
        input[m].kind = "ATOM" /\ input[m].serial = Frames[a[1] + 1].numbers[a[2] + 1]

\* a polar hydrogen read after a hetero neighbour has a donor
LaterPolarHydrogensHaveDonor ==
    (lig # Idle /\ Constructed) =>
        \A h \in PolarHydrogens :
            HydrogenAfterNeighbour(h) =>
                \E a \in HeteroNeighbours(h[1], h[2]) : IsDonor(a)

\* a step of the getline loop that reads a line of the given kind
ReadsLine(kind) ==
    /\ lig # Idle /\ Len(input') = Len(input) + 1
    /\ input'[Len(input')].kind = kind

\* the step made a frame for the BRANCH line it read and entered it
BranchFrameCreated ==
    /\ Len(lig'.frames) = Len(lig.frames) + 1
    /\ lig'.frames[Len(lig'.frames)].parent = lig.current
    /\ lig'.frames[Len(lig'.frames)].rotorX + 1
          \in 1..Len(lig.frames[lig.current + 1].numbers)
    /\ lig.frames[lig.current + 1].numbers[lig'.frames[Len(lig'.frames)].rotorX + 1]
          = input'[Len(input')].x
    /\ lig'.current = Len(lig'.frames) - 1

\* the step returned a ligand with one frame per BRANCH line and the root
FramesCounted ==
    (lig # Idle /\ lig.status = "parsing" /\ lig'.status = "done") =>
        lig'.num_frames = 1 + NumLinesOfKind(input', "BRANCH")

\* C21: every BRANCH line creates exactly one new frame, whose parent is
\* the frame current at that line and whose rotorX is the index of the
\* parent's heavy atom with serial number X, and makes the new frame
\* current; hence num_frames is 1 + the number of BRANCH lines of the file.
C21_BranchCreatesFrame ==
    [][(ReadsLine("BRANCH") => BranchFrameCreated) /\ FramesCounted]_vars

\* the parser just before it reads line n of the file
Before(n) == ParseLines(NewLigand, SubSeq(input, 1, n - 1))

InLastFrame(st) == st.current = Len(st.frames) - 1

\* C22: whenever the parser processes an ATOM/HETATM line of a file it
\* accepts, the current frame is the most recently created frame
\* (current == frames.size() - 1).
C22_AtomInLastFrame ==
    (lig # Idle /\ Constructed) =>
        \A n \in AtomLines : \E st \in {Before(n)} : InLastFrame(st)

\* the last BRANCH or ENDBRANCH line before line n is no ENDBRANCH
NotAfterEndBranch(n) ==
    \A m \in 1..(n - 1) :
        input[m].kind = "ENDBRANCH" =>
            \E b \in (m + 1)..(n - 1) : input[b].kind = "BRANCH"

\* an ATOM line that follows the BRANCH line of its frame, or is of the root
\* before any branch is closed, is read into the last frame
AtomInLastFrameUnlessClosed ==
    (lig # Idle /\ Constructed) =>
        \A n \in AtomLines :
            NotAfterEndBranch(n) => \E st \in {Before(n)} : InLastFrame(st)

\* the frame whose orientation_m evaluate reads to place frame k (line 365)
OrientationRead(k) == Frames[k + 1].parent

\* C23: every frame with active == false is a leaf (no frame has it as
\* parent) and holds exactly one heavy atom; so evaluate, which leaves the
\* orientation of an inactive frame as it is, reads the orientation of no
\* inactive frame when it places another frame.
C23_InactiveIsSingleLeaf ==
    (lig # Idle /\ Constructed) =>
        /\ \A k \in 0..(NumFrames - 1) :
              ~Frames[k + 1].active => IsLeaf(k) /\ NumHeavy(Frames, k) = 1
        /\ \A k \in 1..(NumFrames - 1) : Frames[OrientationRead(k) + 1].active

\* C23 for the files whose BRANCH lines all name an atom of their frame and
\* are matched by their ENDBRANCH lines
InactiveIsSingleLeafWhenResolved ==
    (lig # Idle /\ Constructed /\ WellNested /\ AllBranchesResolved) =>
        /\ \A k \in 0..(NumFrames - 1) :
              ~Frames[k + 1].active => IsLeaf(k) /\ NumHeavy(Frames, k) = 1
        /\ \A k \in 1..(NumFrames - 1) : Frames[OrientationRead(k) + 1].active

\* the <<frame, index>> of conf.torsions read and of g.torsions written by
\* the last call
TorsionsRead == {out.reads[n] : n \in 1..Len(out.reads)}

TorsionsWritten == {out.writes[n] : n \in 1..Len(out.writes)}

\* C24: the forward pass and the backward pass of evaluate give each active
\* frame the same torsion index: g.torsions[t] is written from the frame
\* whose angle was read from conf.torsions[t]; on acceptance every index
\* 0 .. num_active_torsions - 1 of g.torsions is written exactly once and no
\* other index is written (also when num_active_torsions is 0).
C24_TorsionIndicesPaired ==
    (out # Idle /\ Evaluated /\ out.ret) =>
        /\ TorsionsWritten = TorsionsRead
        /\ {w[2] : w \in TorsionsWritten} = 0..(lig.num_active_torsions - 1)
        /\ Len(out.writes) = lig.num_active_torsions

\* C24 for the ligands whose num_active_torsions counts their active frames
TorsionIndicesPairedWhenCounted ==
    (out # Idle /\ Evaluated /\ out.ret
        /\ lig.num_active_torsions = Cardinality(ActiveFrames)) =>
        /\ TorsionsWritten = TorsionsRead
        /\ {w[2] : w \in TorsionsWritten} = 0..(lig.num_active_torsions - 1)
        /\ Len(out.writes) = lig.num_active_torsions

\* the frames of the subtree rooted at frame k
RECURSIVE Subtree(_)
Subtree(k) ==
    {k} \cup UNION {Subtree(c) : c \in {c \in (k + 1)..(NumFrames - 1) :
                                            Frames[c + 1].parent = k}}

\* the sum of the derivatives of the heavy atoms of the frames in K
RECURSIVE SumDerivatives(_)
SumDerivatives(A) ==
    IF A = {} THEN zero3
    ELSE LET a == CHOOSE x \in A : TRUE
         IN  VAdd(Frames[a[1] + 1].derivatives[a[2] + 1], SumDerivatives(A \ {a}))

AtomsOf(K) == {a \in HeavyAtoms : a[1] \in K}

\* C25: in the backward pass of evaluate a frame's force and torque are
\* added to its parent only after those of all its descendants were added
\* to it: on acceptance the force of every frame is the sum of the
\* derivatives of the heavy atoms of its subtree, and g.position is the sum
\* of the derivatives of all heavy atoms of all frames.
C25_ForceAggregated ==
    (out # Idle /\ Evaluated /\ out.ret) =>
        /\ \A k \in 0..(NumFrames - 1) :
              Frames[k + 1].force = SumDerivatives(AtomsOf(Subtree(k)))
        /\ out.g.position = SumDerivatives(HeavyAtoms)

\* an accepted pose of a ligand with a branch nested in a branch, whose
\* inner frame carries a force
C25_Witness ==
    /\ out # Idle /\ Evaluated /\ out.ret
    /\ \E k \in 2..(NumFrames - 1) :
          /\ Frames[k + 1].parent >= 1
          /\ Frames[k + 1].force # zero3
    /\ out.g.position = SumDerivatives(HeavyAtoms)

\* a node of a map of num_grids[0] * num_grids[1] * num_grids[2] entries
ValidNode(b, n) == \A d \in 1..3 : 0 <= n[d] /\ n[d] < b.num_grids[d]

\* the nodes evaluate read for the heavy atom a at the coordinate it stored
NodesRead(a) ==
    GridReads(grid_index(box, Frames[a[1] + 1].coordinates[a[2] + 1]))

CellIndexInBounds ==
    (out # Idle /\ Evaluated /\ PoseInside) =>
        \A a \in PlacedAtoms : ValidNode(box, NodesRead(a)[1])

-----------------------------------------------------------------------------
(* The pose evaluate stores and the pose compose_result computes. The      *)
(* ligands are those of EvalFiles and one more the constructor accepts: a  *)
(* BRANCH line whose X names no atom, read after a frame of one heavy atom *)
(* was closed, puts its atoms into that inactive frame.                    *)

PoseFiles ==
    EvalFiles \cup
    { << AtomLine(1, <<0, 0, 0>>, "C"),
         BranchLine(1), AtomLine(2, <<1, 0, 0>>, "C"), EndBranchLine,
         BranchLine(NoSerial), AtomLine(3, <<1, 1, 0>>, "C"), EndBranchLine >> }

InitPose ==
    /\ \E file \in PoseFiles : input = file /\ lig = ligand(file)
    /\ out = [ ret |-> FALSE, e |-> 0, f |-> 0, g |-> change(lig.num_active_torsions),
               reads |-> <<>>, writes |-> <<>> ]
    /\ conf = Idle /\ calls = 0 /\ main = Idle

SpecPose == InitPose /\ [][NextEval]_vars

\* the result compose_result builds for the conformation of the last call
Composed == compose_result(lig, out.e, out.f, conf.conf)

\* C27: for the same ligand and the same conformation the heavy-atom
\* coordinates compose_result computes equal, frame by frame and atom by
\* atom, the coordinates evaluate stored in frames[k].coordinates when it
\* accepted the conformation.
C27_ComposeMatchesEvaluate ==
    (out # Idle /\ Evaluated /\ out.ret) =>
        \A a \in HeavyAtoms :
            Composed.heavy_atoms[a[1] + 1][a[2] + 1] = Frames[a[1] + 1].coordinates[a[2] + 1]

\* the same for the atoms evaluate places
PlacedAtomsMatchCompose ==
    (out # Idle /\ Evaluated /\ out.ret) =>
        \A a \in PlacedAtoms :
            Composed.heavy_atoms[a[1] + 1][a[2] + 1] = Frames[a[1] + 1].coordinates[a[2] + 1]

\* C28: a refused evaluation is not observable through its outputs: whenever
\* evaluate returns false the caller's change g is left unmodified and the
\* caller's e and f hold the values they had before the call.
C28_RefusalLeavesOutputs ==
    [][(calls' = calls + 1 /\ ~out'.ret) =>
            /\ out'.g = out.g
            /\ out'.e = out.e
            /\ out'.f = out.f]_vars

\* a refused evaluation leaves the caller's change g as it was
RefusalLeavesChange ==
    [][(calls' = calls + 1 /\ ~out'.ret) => out'.g = out.g]_vars

\* an evaluation refused because conf.position is outside the box leaves e
\* and f as they were
BoxRefusalLeavesEnergies ==
    [][(calls' = calls + 1 /\ ~within(box, conf'.conf.position)) =>
            /\ ~out'.ret
            /\ out'.e = out.e
            /\ out'.f = out.f]_vars

-----------------------------------------------------------------------------
(* Progress of main.  The main thread runs whenever it is not blocked, the *)
(* workers of the io service pool run every posted task, and the OpenCL    *)
(* runtime completes every launched kernel and calls its callback.         *)

MainThread ==
    \/ ParseOptions \/ PostScoring \/ WaitScoring \/ ParseReceptor \/ DetectDevices
    \/ SetupDevices \/ PostForest \/ WaitForest
    \/ ParseLigand \/ CreateGridMaps \/ WaitGridMaps
    \/ PopIdle \/ Encode \/ ClearSolution \/ Launch
    \/ EndOfFolder \/ Synchronize \/ IoWait \/ WriteLog

\* every task a fan-out can post
AllJobs ==
    { Job("sf", p[1], p[2]) : p \in SfPairs } \cup { Job("tree", i, 0) : i \in Trees }
        \cup { Job("slab", z, 0) : z \in Slabs }

\* a worker of the pool runs the posted task j
Worker(j) == j \in main.jobs /\ (RunScoring(j) \/ RunTree(j) \/ RunSlab(j))

\* the runtime completes the kernel of ligand n and calls its callback
Runtime(n) == n \in 1..Len(main.tasks) /\ (OutputComplete(n) \/ Callback(n))

\* a worker of the pool runs the next statement of the task of ligand n
PostProcess(n) ==
    n \in 1..Len(main.tasks) /\ (Write(n) \/ Unmap(n) \/ SafePrint(n) \/ PushIdle(n))

\* the pool runs a posted task of the fan-out while there is one
Workers == \E j \in AllJobs : Worker(j)

\* the kernel of ligand n completes, its callback is called and its posted
\* task is run, one after the other
Fairness ==
    /\ WF_vars(MainThread)
    /\ WF_vars(Workers)
    /\ \A n \in 1..MaxLigands : WF_vars(Runtime(n) \/ PostProcess(n))

SpecMainFair == SpecMain /\ Fairness

\* cnt.wait() returns to the main thread once the counter is reached
Waits == WaitScoring \/ WaitForest \/ WaitGridMaps

\* The part of the fairness a fan-out relies on: the pool runs the posted
\* tasks and the main thread is woken from cnt.wait()
SpecMainJoin == SpecMain /\ WF_vars(Workers) /\ WF_vars(Waits)

Dispatched(n) == n \in 1..Len(main.tasks)

\* the task of ligand n has executed its first statement
TaskRan(n) ==
    /\ Dispatched(n)
    /\ \/ main.tasks[n].stage = "done"
       \/ main.tasks[n].stage = "posted" /\ main.tasks[n].ip > 1

\* main never blocks forever on idle.safe_pop_back()
PopReturns == (main.pc = "pop") ~> (main.pc # "pop")

\* the post-processing task of every dispatched ligand eventually runs
TasksRun == \A n \in 1..MaxLigands : Dispatched(n) ~> TaskRan(n)

\* past io.wait() every device index is back in the idle pool
IdleFullAfterIoWait == [](main.pc = "log" => Len(main.idle) = main.num_devices)

\* C29: when every launched kernel completes and the workers are scheduled
\* fairly, main never blocks forever on idle.safe_pop_back(), the post-
\* processing task of every dispatched ligand eventually runs, and when main
\* passes io.wait() idle.size() == num_devices.
C29_DriverProgress == PopReturns /\ TasksRun /\ IdleFullAfterIoWait

\* the post-processing task of every dispatched ligand runs unless a
\* parsing_error ends the process first
TasksRunUnlessTerminated ==
    \A n \in 1..MaxLigands : Dispatched(n) ~> (TaskRan(n) \/ main.pc = "terminated")

Waiting == main.pc \in {"sf_wait", "forest_wait", "maps_wait"}

\* cnt.init: the counter starts at zero and expects the tasks just posted
CounterInitialised ==
    (~Waiting /\ Waiting') =>
        /\ main'.cnt.i = 0
        /\ main'.cnt.n = Cardinality(main'.jobs)
        /\ main'.jobs # {}

\* a task of the fan-out ends with one increment of the counter
TaskIncrementsOnce ==
    (main'.jobs # main.jobs /\ Waiting) =>
        /\ Cardinality(main'.jobs) = Cardinality(main.jobs) - 1
        /\ main'.cnt.i = main.cnt.i + 1
        /\ main'.cnt.n = main.cnt.n

\* cnt.wait() returns only when no task of the fan-out is left
WaitJoinsAll == (Waiting /\ ~Waiting') => main.jobs = {}

\* the runtime's callbacks and the post-processing tasks leave the counter
PostProcessingKeepsCounter ==
    \A n \in 1..MaxLigands : (Runtime(n) \/ PostProcess(n)) => main'.cnt = main.cnt

\* cnt.wait() returns
WaitReturns == Waiting ~> ~Waiting

\* C30: in each fan-out (scoring-function pairs, random-forest trees, grid-map
\* z slabs) the counter is initialised to exactly the number of tasks posted
\* and each task increments it exactly once, so cnt.wait() returns only after
\* all tasks of the fan-out have finished and never blocks forever; the
\* post-processing tasks of ligands in flight never change the counter.
C30_FanOutJoined ==
    /\ [][CounterInitialised /\ TaskIncrementsOnce /\ WaitJoinsAll
            /\ PostProcessingKeepsCounter]_vars
    /\ [](Waiting => main.cnt.n - main.cnt.i = Cardinality(main.jobs))
    /\ WaitReturns

\* the slabs of a later ligand are half joined while the post-processing
\* task of an earlier ligand is running on the same pool
C30_Witness ==
    /\ main.pc = "maps_wait"
    /\ 0 < main.cnt.i /\ main.cnt.i < main.cnt.n
    /\ main.cnt.n - main.cnt.i = Cardinality(main.jobs)
    /\ \E n \in 1..Len(main.tasks) :
          main.tasks[n].stage = "posted" /\ main.tasks[n].ip > 1

====
